---- MODULE Spec2Model ----
(***************************************************************************)
(* Model of the snapie video player: the resolution server (server.js,     *)
(* db.js) and the playback controller of the browser client (main.js).     *)
(*                                                                         *)
(* JavaScript values are modelled as follows.  A string is a TLA+ string.  *)
(* An object (a MongoDB document, a resolver result, a JSON body) is a     *)
(* function whose DOMAIN is the set of fields the object has, so a field   *)
(* that is absent (undefined) is absent from the DOMAIN.  The JavaScript   *)
(* values undefined and null, where a string is expected, are the two      *)
(* sentinels UNDEFINED and NULL, which no input string equals.             *)
(***************************************************************************)
EXTENDS Integers, Sequences, FiniteSets, Bags, TLC

VARIABLES
  env,          \* process.env: the configuration read by server.js
  videos,       \* the legacy collection: owner/permlink key -> document
  embedVideos,  \* the embed-video collection: owner/permlink key -> document
  viewReqs,     \* bag of POST /api/view handlers suspended at an await of db.js
  response,     \* the HTTP exchange completed last
  posted        \* number of POST /api/view requests received

serverVars == <<env, videos, embedVideos, viewReqs, response, posted>>

VARIABLES
  currentVideoData,    \* main.js: the videoData of the session, NoVideoData before
  hasIncrementedView,  \* player.hasIncrementedView (undefined counts as false)
  triedFallback,       \* player.triedFallback (undefined counts as false)
  stallCount,          \* player.stallCount
  lastStallTime,       \* player.lastStallTime
  now,                 \* Date.now()
  hasVhs,              \* player.tech().vhs exists (false with native HLS)
  src,                 \* the sources last given to player.src()
  loading,             \* a source was set and its metadata is not yet reported
  paused,              \* player.paused()
  currentTime,         \* player.currentTime()
  playerState,         \* the text updatePlayerState() shows
  codecErrorShown,     \* the overlay of showCodecError() is up
  resumeHandlers,      \* pending one('loadedmetadata') handlers: the position each
                       \* captured and the session that registered it
  session,             \* number of loadVideoFromData calls so far
  sessionPlays,        \* 'play' events of the current session (counted up to 2)
  stallGaps,           \* the stalls of the current session: "none" so far, "sparse"
                       \* (each 10 s or more after the one before it) or "dense"
  viewPosts            \* the POST /api/view requests sent, each with its session

playerVars ==
  <<currentVideoData, hasIncrementedView, triedFallback, stallCount, lastStallTime,
    now, hasVhs, src, loading, paused, currentTime, playerState, codecErrorShown,
    resumeHandlers, session, sessionPlays, stallGaps, viewPosts>>

VARIABLES
  embedded,        \* window.parent !== window: the page runs inside a frame
  muted,           \* player.muted()
  volume,          \* player.volume(), in tenths
  fullscreen,      \* player.isFullscreen()
  videoSize,       \* <<player.videoWidth(), player.videoHeight()>>
  aspectRetries,   \* pending one('loadeddata', handleAspectRatio) handlers
  lastTimeUpdate,  \* lastTimeUpdate of the 'timeupdate' handler
  posts,           \* the window.parent.postMessage calls made: the message, with
                   \* Date.now() and the session at the call
  logged           \* the event.data the message listener logged last

hostVars ==
  <<embedded, muted, volume, fullscreen, videoSize, aspectRetries, lastTimeUpdate,
    posts, logged>>

VARIABLES
  levels,          \* the BANDWIDTH of each playlist of the master playlist, in
                   \* kbit/s and in the order of the manifest; player.qualityLevels()
                   \* lists the same tiers
  enabled,         \* qualityLevels[i].enabled of each tier
  firstPlayArmed,  \* the one('firstplay') handler is still registered
  permissive,      \* tech.vhs.selectPlaylist is the override of the 'firstplay' handler
  selection        \* the last call of tech.vhs.selectPlaylist(): the throughput
                   \* figures it read, what the original selection gave, whether
                   \* the override ran, and the tier returned (0 for none)

qualityVars == <<levels, enabled, firstPlayArmed, permissive, selection>>

vars == <<serverVars, playerVars, hostVars, qualityVars>>

-----------------------------------------------------------------------------
(* JavaScript values                                                       *)

UNDEFINED == "<undefined>"
NULL == "<null>"

\* !x for a value that is a string, undefined or null
Falsy(x) == x \in {UNDEFINED, NULL, ""}

\* obj.field
Get(obj, field) == IF field \in DOMAIN obj THEN obj[field] ELSE UNDEFINED

\* `${x}` inside a template literal
Str(x) == IF x = UNDEFINED THEN "undefined" ELSE IF x = NULL THEN "null" ELSE x

Restrict(f, S) == [k \in S |-> f[k]]

UPPER == "ABCDEFGHIJKLMNOPQRSTUVWXYZ"
LOWER == "abcdefghijklmnopqrstuvwxyz"

\* the upper-case letters, each with its lower-case form
UpperToLower ==
  [c \in {SubSeq(UPPER, i, i) : i \in 1..Len(UPPER)} |->
     LET i == CHOOSE j \in 1..Len(UPPER) : SubSeq(UPPER, j, j) = c
     IN SubSeq(LOWER, i, i)]

\* one character of String.prototype.toLowerCase
LowerChar(c) == IF c \in DOMAIN UpperToLower THEN UpperToLower[c] ELSE c

RECURSIVE toLowerCase(_)
toLowerCase(s) ==
  IF s = "" THEN ""
  ELSE LowerChar(SubSeq(s, 1, 1)) \o toLowerCase(SubSeq(s, 2, Len(s)))

\* s.startsWith(prefix)
startsWith(s, prefix) ==
  Len(s) >= Len(prefix) /\ SubSeq(s, 1, Len(prefix)) = prefix

\* index of the first ch in s at or after position from, 0 when there is none
RECURSIVE IndexOf(_, _, _)
IndexOf(s, ch, from) ==
  IF from > Len(s) THEN 0
  ELSE IF SubSeq(s, from, from) = ch THEN from
  ELSE IndexOf(s, ch, from + 1)

\* s.split('/')[0]
SplitFirst(s) ==
  LET i == IndexOf(s, "/", 1)
  IN IF i = 0 THEN s ELSE SubSeq(s, 1, i - 1)

\* s.split('/')[1], undefined when s holds no '/'
SplitSecond(s) ==
  LET i == IndexOf(s, "/", 1)
      j == IF i = 0 THEN 0 ELSE IndexOf(s, "/", i + 1)
  IN IF i = 0 THEN UNDEFINED
     ELSE IF j = 0 THEN SubSeq(s, i + 1, Len(s))
     ELSE SubSeq(s, i + 1, j - 1)

-----------------------------------------------------------------------------
(* server.js: constants                                                    *)

VIDEO_STATUS ==
  [DELETE |-> "delete", DELETED |-> "deleted", SELF_DELETED |-> "self_deleted",
   ENCODING_IPFS |-> "encoding_ipfs", IPFS_PINNING |-> "ipfs_pinning",
   UPLOADED |-> "uploaded",
   ENCODING_FAILED |-> "encoding_failed",
   PUBLISH_LATER |-> "publish_later", PUBLISH_MANUAL |-> "publish_manual",
   PUBLISHED |-> "published", SCHEDULED |-> "scheduled"]

PLACEHOLDER_TYPE ==
  [PROCESSING |-> "processing", FAILED |-> "failed", DELETED |-> "deleted"]

gateways ==
  [cdn |-> "https://ipfs-3speak.b-cdn.net/ipfs",
   supernode |-> "https://ipfs.3speak.tv/ipfs",
   hotnode |-> "https://hotipfs-1.3speak.tv/ipfs",
   audionode |-> "https://ipfs-audio.3speak.tv/ipfs"]

\* what a call returns when it throws (a TypeError on a non-string receiver)
THROWN == "<TypeError>"

-----------------------------------------------------------------------------
(* server.js: helper functions                                             *)

parseVideoParams(videoParam) ==
  IF Falsy(videoParam)
  THEN [error |-> "Missing video parameter (v)"]
  ELSE LET owner == SplitFirst(videoParam)
           permlink == SplitSecond(videoParam)
       IN IF Falsy(owner) \/ Falsy(permlink)
          THEN [error |-> "Invalid video format. Expected: owner/permlink"]
          ELSE [owner |-> owner, permlink |-> permlink]

createPlaceholderUrls(placeholderUrl) ==
  [primary |-> placeholderUrl, fallback1 |-> placeholderUrl,
   fallback2 |-> placeholderUrl, fallback3 |-> placeholderUrl]

\* useFallback is false at every call site
transformIPFSUrl(ipfsUrl) ==
  IF ipfsUrl \in {UNDEFINED, NULL} THEN THROWN
  ELSE IF startsWith(ipfsUrl, "ipfs://")
  THEN Str(Get(env, "IPFS_GATEWAY")) \o "/" \o SubSeq(ipfsUrl, 8, Len(ipfsUrl))
  ELSE ipfsUrl

\* getVideoUrls without its startsWith test: every input is taken for a CID path
getVideoUrlsNoSchemeTest(ipfsUrl) ==
  LET cidPath == IF startsWith(ipfsUrl, "ipfs://")
                 THEN SubSeq(ipfsUrl, 8, Len(ipfsUrl)) ELSE ipfsUrl
  IN [primary |-> gateways.cdn \o "/" \o cidPath,
      fallback1 |-> gateways.supernode \o "/" \o cidPath,
      fallback2 |-> gateways.hotnode \o "/" \o cidPath,
      fallback3 |-> gateways.audionode \o "/" \o cidPath]

\* getVideoUrls with the supernode ahead of the CDN
getVideoUrlsSupernodeFirst(ipfsUrl) ==
  IF startsWith(ipfsUrl, "ipfs://")
  THEN LET cidPath == SubSeq(ipfsUrl, 8, Len(ipfsUrl))
       IN [primary |-> gateways.supernode \o "/" \o cidPath,
           fallback1 |-> gateways.cdn \o "/" \o cidPath,
           fallback2 |-> gateways.hotnode \o "/" \o cidPath,
           fallback3 |-> gateways.audionode \o "/" \o cidPath]
  ELSE [primary |-> ipfsUrl, fallback1 |-> ipfsUrl,
        fallback2 |-> ipfsUrl, fallback3 |-> ipfsUrl]

getVideoUrls(ipfsUrl) ==
  IF startsWith(ipfsUrl, "ipfs://")
  THEN LET cidPath == SubSeq(ipfsUrl, 8, Len(ipfsUrl))
       IN [primary |-> gateways.cdn \o "/" \o cidPath,
           fallback1 |-> gateways.supernode \o "/" \o cidPath,
           fallback2 |-> gateways.hotnode \o "/" \o cidPath,
           fallback3 |-> gateways.audionode \o "/" \o cidPath]
  ELSE [primary |-> ipfsUrl, fallback1 |-> ipfsUrl,
        fallback2 |-> ipfsUrl, fallback3 |-> ipfsUrl]

\* getPlaceholderVideo with the failed case reading the processing placeholder
getPlaceholderVideoFailedAsProcessing(placeholderType) ==
  LET t == IF placeholderType \in {UNDEFINED, NULL} THEN UNDEFINED
           ELSE toLowerCase(placeholderType)
  IN IF t \in {PLACEHOLDER_TYPE.PROCESSING, "uploading", PLACEHOLDER_TYPE.FAILED}
     THEN transformIPFSUrl(Get(env, "PLACEHOLDER_PROCESSING_CID"))
     ELSE IF t = PLACEHOLDER_TYPE.DELETED
     THEN transformIPFSUrl(Get(env, "PLACEHOLDER_DELETED_CID"))
     ELSE NULL

getPlaceholderVideo(placeholderType) ==
  LET t == IF placeholderType \in {UNDEFINED, NULL} THEN UNDEFINED
           ELSE toLowerCase(placeholderType)
  IN IF t \in {PLACEHOLDER_TYPE.PROCESSING, "uploading"}
     THEN transformIPFSUrl(Get(env, "PLACEHOLDER_PROCESSING_CID"))
     ELSE IF t = PLACEHOLDER_TYPE.FAILED
     THEN transformIPFSUrl(Get(env, "PLACEHOLDER_FAILED_CID"))
     ELSE IF t = PLACEHOLDER_TYPE.DELETED
     THEN transformIPFSUrl(Get(env, "PLACEHOLDER_DELETED_CID"))
     ELSE NULL

\* lowerStatus without the toLowerCase call
lowerStatusAsWritten(video) ==
  IF Get(video, "status") \in {UNDEFINED, NULL} THEN ""
  ELSE video.status

\* video.status?.toLowerCase() || ''
lowerStatus(video) ==
  IF Get(video, "status") \in {UNDEFINED, NULL} THEN ""
  ELSE toLowerCase(video.status)

\* the category of a lower-cased status in getVideoUrlsForLegacyStatus: the
\* branch its includes() tests select
LegacyCategory(status) ==
  IF status \in {VIDEO_STATUS.DELETE, VIDEO_STATUS.DELETED, VIDEO_STATUS.SELF_DELETED}
  THEN "Deleted"
  ELSE IF status \in {VIDEO_STATUS.ENCODING_IPFS, VIDEO_STATUS.IPFS_PINNING,
                      VIDEO_STATUS.UPLOADED}
  THEN "Processing"
  ELSE IF status \in {VIDEO_STATUS.ENCODING_FAILED, "failed"}
  THEN "Failed"
  ELSE IF status \in {VIDEO_STATUS.PUBLISH_LATER, VIDEO_STATUS.PUBLISH_MANUAL,
                      VIDEO_STATUS.PUBLISHED, VIDEO_STATUS.SCHEDULED}
  THEN "Ready"
  ELSE "Unknown"

\* EmbedCategory with Ready decided on the status alone, without the test of
\* video.manifest_cid
EmbedCategoryNoManifestTest(status, manifest_cid) ==
  IF status = VIDEO_STATUS.PUBLISHED
  THEN "Ready"
  ELSE IF status \in {VIDEO_STATUS.DELETE, VIDEO_STATUS.DELETED, VIDEO_STATUS.SELF_DELETED}
  THEN "Deleted"
  ELSE IF status \in {VIDEO_STATUS.ENCODING_IPFS, VIDEO_STATUS.IPFS_PINNING,
                      VIDEO_STATUS.UPLOADED}
  THEN "Processing"
  ELSE IF status \in {"uploading", "processing", "finalizing"}
  THEN "Processing"
  ELSE IF status \in {VIDEO_STATUS.ENCODING_FAILED, "failed"}
  THEN "Failed"
  ELSE "Unknown"

\* the category of a document in getVideoUrlsForEmbedStatus: Ready is tested
\* first and needs the manifest, then the placeholderType chain
EmbedCategory(status, manifest_cid) ==
  IF status = VIDEO_STATUS.PUBLISHED /\ ~Falsy(manifest_cid)
  THEN "Ready"
  ELSE IF status \in {VIDEO_STATUS.DELETE, VIDEO_STATUS.DELETED, VIDEO_STATUS.SELF_DELETED}
  THEN "Deleted"
  ELSE IF status \in {VIDEO_STATUS.ENCODING_IPFS, VIDEO_STATUS.IPFS_PINNING,
                      VIDEO_STATUS.UPLOADED}
  THEN "Processing"
  ELSE IF status \in {"uploading", "processing", "finalizing"}
  THEN "Processing"
  ELSE IF status \in {VIDEO_STATUS.ENCODING_FAILED, "failed"}
  THEN "Failed"
  ELSE "Unknown"

\* { error: message, status: video.status }
ErrorResult(message, video) ==
  [error |-> message, status |-> Get(video, "status")]

\* PlaceholderResult without the test for a falsy placeholder
PlaceholderResultUnchecked(placeholderType, video) ==
  LET placeholderUrl == getPlaceholderVideo(placeholderType)
  IN IF placeholderUrl = THROWN THEN [thrown |-> THROWN]
     ELSE [urls |-> createPlaceholderUrls(placeholderUrl), isPlaceholder |-> TRUE]

\* the three statements every placeholder branch shares: look the placeholder
\* up, fail when it is falsy, else repeat it in the four slots
PlaceholderResult(placeholderType, video) ==
  LET placeholderUrl == getPlaceholderVideo(placeholderType)
  IN IF placeholderUrl = THROWN THEN [thrown |-> THROWN]
     ELSE IF Falsy(placeholderUrl)
     THEN ErrorResult("Placeholder configuration error", video)
     ELSE [urls |-> createPlaceholderUrls(placeholderUrl), isPlaceholder |-> TRUE]

getVideoUrlsForLegacyStatus(video) ==
  LET category == LegacyCategory(lowerStatus(video))
  IN CASE category = "Deleted" -> PlaceholderResult(PLACEHOLDER_TYPE.DELETED, video)
       [] category = "Processing" -> PlaceholderResult(PLACEHOLDER_TYPE.PROCESSING, video)
       [] category = "Failed" -> PlaceholderResult(PLACEHOLDER_TYPE.FAILED, video)
       [] category = "Ready" ->
            IF Falsy(Get(video, "video_v2"))
            THEN ErrorResult("Video source not available", video)
            ELSE [urls |-> getVideoUrls(video.video_v2), isPlaceholder |-> FALSE]
       [] OTHER -> ErrorResult("Video source not available", video)

getVideoUrlsForEmbedStatus(video) ==
  LET category == EmbedCategory(lowerStatus(video), Get(video, "manifest_cid"))
  IN CASE category = "Ready" ->
            [urls |-> getVideoUrls("ipfs://" \o Str(Get(video, "manifest_cid"))
                                   \o "/manifest.m3u8"),
             isPlaceholder |-> FALSE]
       [] category = "Deleted" -> PlaceholderResult(PLACEHOLDER_TYPE.DELETED, video)
       [] category = "Processing" -> PlaceholderResult(PLACEHOLDER_TYPE.PROCESSING, video)
       [] category = "Failed" -> PlaceholderResult(PLACEHOLDER_TYPE.FAILED, video)
       [] OTHER -> ErrorResult("Video not ready", video)

-----------------------------------------------------------------------------
(* db.js                                                                   *)

\* what findOne returns when no document matches (null)
NoDocument == [null |-> TRUE]

\* findLegacyVideo with a filter on the owner alone
findLegacyVideoByOwner(owner, permlink) ==
  IF \E k \in DOMAIN videos : k[1] = owner
  THEN videos[CHOOSE k \in DOMAIN videos : k[1] = owner] ELSE NoDocument

findLegacyVideo(owner, permlink) ==
  IF <<owner, permlink>> \in DOMAIN videos
  THEN videos[<<owner, permlink>>] ELSE NoDocument

findEmbedVideo(owner, permlink) ==
  IF <<owner, permlink>> \in DOMAIN embedVideos
  THEN embedVideos[<<owner, permlink>>] ELSE NoDocument

\* { $inc: { views: 1 } } on one document: an absent field counts from 0
IncViews(doc) ==
  IF "views" \in DOMAIN doc
  THEN [doc EXCEPT !.views = @ + 1]
  ELSE doc @@ ("views" :> 1)

\* updateOne(filter, { $inc: { views: 1 } }) on a collection
UpdateOneInc(collection, owner, permlink) ==
  IF <<owner, permlink>> \in DOMAIN collection
  THEN [collection EXCEPT ![<<owner, permlink>>] = IncViews(@)]
  ELSE collection

\* UpdateOneInitViews without the $exists filter: views is set to 0 each time
UpdateOneSetViewsZero(collection, owner, permlink) ==
  IF <<owner, permlink>> \in DOMAIN collection
  THEN [collection EXCEPT ![<<owner, permlink>>] =
          [k \in DOMAIN @ \cup {"views"} |-> IF k = "views" THEN 0 ELSE @[k]]]
  ELSE collection

\* updateOne({ ..., views: { $exists: false } }, { $set: { views: 0 } })
UpdateOneInitViews(collection, owner, permlink) ==
  IF /\ <<owner, permlink>> \in DOMAIN collection
     /\ "views" \notin DOMAIN collection[<<owner, permlink>>]
  THEN [collection EXCEPT ![<<owner, permlink>>] = @ @@ ("views" :> 0)]
  ELSE collection

\* result.modifiedCount > 0 of the $inc update
Modified(collection, owner, permlink) == <<owner, permlink>> \in DOMAIN collection

-----------------------------------------------------------------------------
(* server.js: API routes                                                   *)

\* one completed HTTP exchange; video is the document the handler found
Exchange(endpoint, request, video, code, body) ==
  [endpoint |-> endpoint, request |-> request, video |-> video,
   code |-> code, body |-> body]

\* video.views || 0
ViewsOrZero(video) == IF "views" \in DOMAIN video THEN video.views ELSE 0

\* the fields of the 200 body that carry the resolution; the display fields
\* (title, description, thumbnail, duration, tags, short, createdAt,
\* updatedAt, encodingProgress) are copied from the document and left out
ResolvedBody(type, video, result) ==
  [success |-> TRUE, type |-> type,
   owner |-> Get(video, "owner"), permlink |-> Get(video, "permlink"),
   status |-> Get(video, "status"),
   isPlaceholder |-> result.isPlaceholder,
   videoUrl |-> result.urls.primary,
   videoUrlFallback1 |-> result.urls.fallback1,
   videoUrlFallback2 |-> result.urls.fallback2,
   videoUrlFallback3 |-> result.urls.fallback3,
   views |-> ViewsOrZero(video)]

\* the part of both GET handlers after the document is found
Resolved(endpoint, type, v, video, result) ==
  IF "thrown" \in DOMAIN result
  THEN Exchange(endpoint, v, video, 500, [error |-> "Internal server error"])
  ELSE IF ~Falsy(Get(result, "error"))
  THEN Exchange(endpoint, v, video, 404,
                [error |-> result.error, status |-> result.status])
  ELSE Exchange(endpoint, v, video, 200, ResolvedBody(type, video, result))

\* app.get('/api/watch'), with req.query.v = v
watchExchange(v) ==
  LET params == parseVideoParams(v)
  IN IF "error" \in DOMAIN params
     THEN Exchange("watch", v, NoDocument, 400, [error |-> params.error])
     ELSE LET video == findLegacyVideo(params.owner, params.permlink)
          IN IF video = NoDocument
             THEN Exchange("watch", v, NoDocument, 404, [error |-> "Video not found"])
             ELSE Resolved("watch", "legacy", v, video,
                           getVideoUrlsForLegacyStatus(video))

\* app.get('/api/embed'), with req.query.v = v
embedExchange(v) ==
  LET params == parseVideoParams(v)
  IN IF "error" \in DOMAIN params
     THEN Exchange("embed", v, NoDocument, 400, [error |-> params.error])
     ELSE LET video == findEmbedVideo(params.owner, params.permlink)
          IN IF video = NoDocument
             THEN Exchange("embed", v, NoDocument, 404, [error |-> "Video not found"])
             ELSE Resolved("embed", "embed", v, video,
                           getVideoUrlsForEmbedStatus(video))

\* isReadyStatus comparing the status as written, without lower-casing it
isReadyStatusAsWritten(video) ==
  Get(video, "status") \in {VIDEO_STATUS.PUBLISHED, VIDEO_STATUS.SCHEDULED,
                            VIDEO_STATUS.PUBLISH_LATER, VIDEO_STATUS.PUBLISH_MANUAL}

\* isReadyStatus with the processing statuses in its list
isReadyStatusWithProcessing(video) ==
  lowerStatus(video) \in {VIDEO_STATUS.PUBLISHED, VIDEO_STATUS.SCHEDULED,
                          VIDEO_STATUS.PUBLISH_LATER, VIDEO_STATUS.PUBLISH_MANUAL,
                          VIDEO_STATUS.ENCODING_IPFS, VIDEO_STATUS.IPFS_PINNING,
                          VIDEO_STATUS.UPLOADED}

\* the isReadyStatus test of app.post('/api/view')
isReadyStatus(video) ==
  lowerStatus(video) \in {VIDEO_STATUS.PUBLISHED, VIDEO_STATUS.SCHEDULED,
                          VIDEO_STATUS.PUBLISH_LATER, VIDEO_STATUS.PUBLISH_MANUAL}

\* a handler of POST /api/view suspended at an await of db.js
Suspended(body, video, pc) == [body |-> body, video |-> video, pc |-> pc]

-----------------------------------------------------------------------------
(* Bounds and inputs                                                       *)

\* POST /api/view requests the server receives in one run
MaxViewPosts == 2

TheOwner == "alice"
ThePermlink == "p1"
TheKey == <<TheOwner, ThePermlink>>

\* req.query.v
VParams ==
  {UNDEFINED, "alice/p1", "alice/nope", "onlyowner", "alice/", "/p1", "alice/p1/x"}

\* req.body of POST /api/view
ViewBodies ==
  {[owner |-> TheOwner, permlink |-> ThePermlink, type |-> "legacy"],
   [owner |-> TheOwner, permlink |-> ThePermlink, type |-> "embed"],
   [owner |-> TheOwner, permlink |-> "nope", type |-> "legacy"],
   [owner |-> TheOwner, permlink |-> ThePermlink, type |-> "other"],
   [owner |-> TheOwner, permlink |-> ThePermlink],
   [permlink |-> ThePermlink, type |-> "embed"]}

\* every status literal of server.js, letter-case variants, unrecognised
\* values and null
StatusInputs ==
  {"delete", "deleted", "self_deleted", "encoding_ipfs", "ipfs_pinning",
   "uploaded", "encoding_failed", "failed", "publish_later", "publish_manual",
   "published", "scheduled", "uploading", "processing", "finalizing",
   "Published", "DELETED", "Encoding_IPFS", "Failed", "draft", "", NULL}

SourceInputs ==
  {"ipfs://CID123", "ipfs://", "IPFS://CID123", "https://host/v.m3u8", NULL}
ManifestInputs == {"CID456", NULL}

\* the documents a collection may hold under TheKey; status, the source field
\* and views may each be absent
LegacyDocs ==
  {Restrict([owner |-> TheOwner, permlink |-> ThePermlink, status |-> s,
             video_v2 |-> u, views |-> 0], {"owner", "permlink"} \cup opt) :
     s \in StatusInputs, u \in SourceInputs,
     opt \in SUBSET {"status", "video_v2", "views"}}

EmbedDocs ==
  {Restrict([owner |-> TheOwner, permlink |-> ThePermlink, status |-> s,
             manifest_cid |-> m, views |-> 0], {"owner", "permlink"} \cup opt) :
     s \in StatusInputs, m \in ManifestInputs,
     opt \in SUBSET {"status", "manifest_cid", "views"}}

\* a published document with its source, held by the collection that is not
\* under test
PublishedLegacy ==
  [owner |-> TheOwner, permlink |-> ThePermlink, status |-> "published",
   video_v2 |-> "ipfs://CID123", views |-> 0]
PublishedEmbed ==
  [owner |-> TheOwner, permlink |-> ThePermlink, status |-> "published",
   manifest_cid |-> "CID456", views |-> 0]

\* .env with every placeholder set, with none set, and with all set blank
EnvConfigured ==
  [IPFS_GATEWAY |-> "https://ipfs.3speak.tv/ipfs",
   PLACEHOLDER_PROCESSING_CID |-> "ipfs://QmProcessing",
   PLACEHOLDER_FAILED_CID |-> "ipfs://QmFailed",
   PLACEHOLDER_DELETED_CID |-> "https://cdn.example/deleted.m3u8"]
EnvUnset == [IPFS_GATEWAY |-> "https://ipfs.3speak.tv/ipfs"]
EnvBlank ==
  [IPFS_GATEWAY |-> "https://ipfs.3speak.tv/ipfs",
   PLACEHOLDER_PROCESSING_CID |-> "", PLACEHOLDER_FAILED_CID |-> "",
   PLACEHOLDER_DELETED_CID |-> ""]
Envs == {EnvConfigured, EnvUnset, EnvBlank}

NoExchange == [endpoint |-> "none"]

-----------------------------------------------------------------------------
(* server.js: the handlers                                                 *)

ServerInit(envs) ==
  /\ env \in envs
  /\ \/ /\ videos \in {TheKey :> d : d \in LegacyDocs}
        /\ embedVideos = TheKey :> PublishedEmbed
     \/ /\ videos = TheKey :> PublishedLegacy
        /\ embedVideos \in {TheKey :> d : d \in EmbedDocs}
  /\ viewReqs = EmptyBag
  /\ response = NoExchange
  /\ posted = 0

\* GET /api/watch?v=... counting a view of the document it serves
WatchCounting(v) ==
  /\ response' = watchExchange(v)
  /\ videos' = IF "error" \in DOMAIN parseVideoParams(v) THEN videos
               ELSE UpdateOneInc(videos, parseVideoParams(v).owner,
                                 parseVideoParams(v).permlink)
  /\ UNCHANGED <<env, embedVideos, viewReqs, posted>>
  /\ UNCHANGED <<playerVars, hostVars, qualityVars>>

\* GET /api/watch?v=...
Watch(v) ==
  /\ response' = watchExchange(v)
  /\ UNCHANGED <<env, videos, embedVideos, viewReqs, posted>>
  /\ UNCHANGED <<playerVars, hostVars, qualityVars>>

\* GET /api/embed?v=...
Embed(v) ==
  /\ response' = embedExchange(v)
  /\ UNCHANGED <<env, videos, embedVideos, viewReqs, posted>>
  /\ UNCHANGED <<playerVars, hostVars, qualityVars>>

\* POST /api/view up to its await of the increment: validation, the find and
\* the isReadyStatus test
View(body) ==
  LET owner == Get(body, "owner")
      permlink == Get(body, "permlink")
      type == Get(body, "type")
      video == IF type = "legacy" THEN findLegacyVideo(owner, permlink)
               ELSE findEmbedVideo(owner, permlink)
  IN /\ posted < MaxViewPosts
     /\ posted' = posted + 1
     /\ IF Falsy(owner) \/ Falsy(permlink) \/ Falsy(type)
        THEN /\ response' = Exchange("view", body, NoDocument, 400,
                                     [error |-> "Missing required fields"])
             /\ UNCHANGED viewReqs
        ELSE IF type \notin {"legacy", "embed"}
        THEN /\ response' = Exchange("view", body, NoDocument, 400,
                       [error |-> "Invalid type. Must be \"legacy\" or \"embed\""])
             /\ UNCHANGED viewReqs
        ELSE IF video = NoDocument
        THEN /\ response' = Exchange("view", body, NoDocument, 404,
                                     [error |-> "Video not found"])
             /\ UNCHANGED viewReqs
        ELSE IF isReadyStatus(video)
        THEN /\ viewReqs' = viewReqs (+) SetToBag({Suspended(body, video,
                              IF type = "legacy" THEN "inc" ELSE "init")})
             /\ UNCHANGED response
        ELSE /\ response' = Exchange("view", body, video, 200,
                              [success |-> FALSE, counted |-> FALSE,
                               reason |-> "Video not in published state"])
             /\ UNCHANGED viewReqs
     /\ UNCHANGED <<env, videos, embedVideos>>
     /\ UNCHANGED <<playerVars, hostVars, qualityVars>>

\* db.incrementLegacyViews and the res.json that follows it
IncrementLegacyViews(r) ==
  /\ r \in BagToSet(viewReqs)
  /\ r.body.type = "legacy" /\ r.pc = "inc"
  /\ videos' = UpdateOneInc(videos, r.body.owner, r.body.permlink)
  /\ response' = Exchange("view", r.body, r.video, 200,
                   [success |-> Modified(videos, r.body.owner, r.body.permlink),
                    counted |-> TRUE])
  /\ viewReqs' = viewReqs (-) SetToBag({r})
  /\ UNCHANGED <<env, embedVideos, posted>>
  /\ UNCHANGED <<playerVars, hostVars, qualityVars>>

\* db.incrementEmbedViews, first updateOne: set views to 0 where it is absent
InitEmbedViews(r) ==
  /\ r \in BagToSet(viewReqs)
  /\ r.body.type = "embed" /\ r.pc = "init"
  /\ embedVideos' = UpdateOneInitViews(embedVideos, r.body.owner, r.body.permlink)
  /\ viewReqs' = (viewReqs (-) SetToBag({r})) (+) SetToBag({[r EXCEPT !.pc = "inc"]})
  /\ UNCHANGED <<env, videos, response, posted>>
  /\ UNCHANGED <<playerVars, hostVars, qualityVars>>

\* db.incrementEmbedViews, second updateOne, and the res.json that follows it
IncrementEmbedViews(r) ==
  /\ r \in BagToSet(viewReqs)
  /\ r.body.type = "embed" /\ r.pc = "inc"
  /\ embedVideos' = UpdateOneInc(embedVideos, r.body.owner, r.body.permlink)
  /\ response' = Exchange("view", r.body, r.video, 200,
                   [success |-> Modified(embedVideos, r.body.owner, r.body.permlink),
                    counted |-> TRUE])
  /\ viewReqs' = viewReqs (-) SetToBag({r})
  /\ UNCHANGED <<env, videos, posted>>
  /\ UNCHANGED <<playerVars, hostVars, qualityVars>>

\* the statuses the encoding pipeline writes while the server runs
PipelineStatuses == {"encoding_ipfs", "published", "deleted"}

\* the document with its status replaced by s
WithStatus(video, s) == [k \in DOMAIN video \cup {"status"} |->
                           IF k = "status" THEN s ELSE video[k]]

\* the encoding pipeline, a separate process, writes the status of the
\* document under TheKey in one of the collections
PipelineSetsStatus(type, status) ==
  /\ IF type = "legacy"
     THEN /\ Get(videos[TheKey], "status") # status
          /\ videos' = [videos EXCEPT ![TheKey] = WithStatus(@, status)]
          /\ UNCHANGED embedVideos
     ELSE /\ Get(embedVideos[TheKey], "status") # status
          /\ embedVideos' = [embedVideos EXCEPT ![TheKey] = WithStatus(@, status)]
          /\ UNCHANGED videos
  /\ UNCHANGED <<env, viewReqs, response, posted>>
  /\ UNCHANGED <<playerVars, hostVars, qualityVars>>

-----------------------------------------------------------------------------
(* main.js: the playback controller                                        *)

NoVideoData == [null |-> TRUE]

\* Date.now() when the page loads, and the clock steps of the model (ms)
StartTime == 1000000
ClockSteps == {5000, 10000}

\* bounds: the clock runs for MaxElapsed ms, loadVideoFromData is called
\* MaxLoads times
MaxElapsed == 10000
MaxLoads == 2

\* bound: the stall counter is followed up to MaxStalls
MaxStalls == 3

\* playback positions (seconds)
Positions == {0, 30}

\* MediaError codes: MEDIA_ERR_NETWORK, MEDIA_ERR_DECODE, MEDIA_ERR_SRC_NOT_SUPPORTED
ErrorCodes == {2, 3, 4}

\* the 200 body of /api/watch for a published document
RealVideoData ==
  ResolvedBody("legacy", PublishedLegacy,
               [urls |-> getVideoUrls("ipfs://CID123"), isPlaceholder |-> FALSE])

\* the 200 body of /api/embed for a deleted document
PlaceholderVideoData ==
  ResolvedBody("embed",
               [owner |-> TheOwner, permlink |-> "p2", status |-> "deleted"],
               [urls |-> createPlaceholderUrls("https://cdn.example/deleted.m3u8"),
                isPlaceholder |-> TRUE])

\* the 200 body of the earlier /api/watch, which names one fallback
OldServerVideoData ==
  [success |-> TRUE, type |-> "legacy", owner |-> TheOwner, permlink |-> "p3",
   videoUrl |-> "https://ipfs.3speak.tv/ipfs/CID789",
   videoUrlFallback |-> "https://ipfs-fallback.3speak.tv/ipfs/CID789",
   views |-> 0]

VideoDatas == {RealVideoData, PlaceholderVideoData, OldServerVideoData}

\* the player as initializePlayer() leaves it
PlayerStart(vhs) ==
  /\ currentVideoData = NoVideoData
  /\ hasIncrementedView = FALSE
  /\ triedFallback = FALSE
  /\ stallCount = 0
  /\ lastStallTime = 0
  /\ now = StartTime
  /\ hasVhs \in vhs
  /\ src = <<>>
  /\ loading = FALSE
  /\ paused = TRUE
  /\ currentTime = 0
  /\ playerState = "Ready"
  /\ codecErrorShown = FALSE
  /\ resumeHandlers = <<>>
  /\ session = 0
  /\ sessionPlays = 0
  /\ stallGaps = "none"
  /\ viewPosts = <<>>

\* the sources array loadVideoFromData builds
Sources(videoData) ==
  LET extra(f) == IF /\ ~Falsy(Get(videoData, f))
                     /\ videoData[f] # Get(videoData, "videoUrl")
                  THEN <<videoData[f]>> ELSE <<>>
  IN <<Get(videoData, "videoUrl")>> \o extra("videoUrlFallback1")
       \o extra("videoUrlFallback2") \o extra("videoUrlFallback3")

\* the body incrementViewCount posts to /api/view
ViewBody(videoData) ==
  [owner |-> Get(videoData, "owner"), permlink |-> Get(videoData, "permlink"),
   type |-> Get(videoData, "type")]

\* the guard of the view increment in the 'play' handler, without its test of
\* player.hasIncrementedView
ShouldIncrementViewUnguarded == currentVideoData # NoVideoData

\* the guard of the view increment in the 'play' handler
ShouldIncrementView == currentVideoData # NoVideoData /\ ~hasIncrementedView

\* FallbackAvailable without its test of player.triedFallback
FallbackAvailableRetried ==
  /\ currentVideoData # NoVideoData
  /\ ~Falsy(Get(currentVideoData, "videoUrlFallback"))

\* FallbackAvailable testing the state shown instead of player.triedFallback
FallbackAvailableUntilError ==
  /\ currentVideoData # NoVideoData
  /\ ~Falsy(Get(currentVideoData, "videoUrlFallback"))
  /\ playerState \notin {"Error", "Decode Error - See Console"}

\* the guard shared by the three failovers: a fallback is named and none was tried
FallbackAvailable ==
  /\ currentVideoData # NoVideoData
  /\ ~Falsy(Get(currentVideoData, "videoUrlFallback"))
  /\ ~triedFallback

\* no message event was logged yet
NoEvent == [null |-> TRUE]

\* full volume and the volume step 0.1, in tenths
FullVolume == 10
DefaultStep == 1

\* the dimensions the media pipeline reports: none yet, landscape, portrait, square
NoSize == <<0, 0>>
VideoSizes == {NoSize, <<1920, 1080>>, <<1080, 1920>>, <<720, 720>>}

\* no call of tech.vhs.selectPlaylist() was made yet
NoSelection == [null |-> TRUE]

\* the quality tiers as initializePlayer() leaves them: the master playlist is
\* one of manifests, every tier enabled, the 'firstplay' handler registered
QualityStart(manifests) ==
  /\ levels \in manifests
  /\ enabled = [i \in 1..Len(levels) |-> TRUE]
  /\ firstPlayArmed = TRUE
  /\ permissive = FALSE
  /\ selection = NoSelection

\* the page as initializePlayer() leaves it
HostStart(frames, sizes) ==
  /\ embedded \in frames
  /\ muted = FALSE
  /\ volume = FullVolume
  /\ fullscreen = FALSE
  /\ videoSize \in sizes
  /\ aspectRetries = 0
  /\ lastTimeUpdate = 0
  /\ posts = <<>>
  /\ logged = NoEvent

\* posts after window.parent.postMessage(message, '*') was called times times
Posted(message, times) ==
  posts \o [i \in 1..times |-> [message |-> message, at |-> now, session |-> session]]

\* the handlers that post only inside a frame
PostedIfEmbedded(message) == IF embedded THEN Posted(message, 1) ELSE posts

\* the message handleAspectRatio builds (aspectRatio, the quotient, is left out)
ReadyMessage(size) ==
  LET videoWidth == size[1]
      videoHeight == size[2]
      isVertical == videoHeight > videoWidth
  IN [type |-> "3speak-player-ready", isVertical |-> isVertical,
      width |-> videoWidth, height |-> videoHeight,
      orientation |-> IF isVertical THEN "vertical"
                      ELSE IF videoWidth = videoHeight THEN "square"
                      ELSE "horizontal"]

\* handleAspectRatio() run calls times, with registered handlers pending after
\* them when the dimensions are known
handleAspectRatio(calls, registered) ==
  IF videoSize[1] = 0 \/ videoSize[2] = 0
  THEN /\ aspectRetries' = registered + calls
       /\ posts' = posts
  ELSE /\ aspectRetries' = registered
       /\ posts' = IF embedded THEN Posted(ReadyMessage(videoSize), calls) ELSE posts

\* loadVideoFromData(videoData)
loadVideoFromData(videoData) ==
  /\ session < MaxLoads
  /\ currentVideoData' = videoData
  /\ hasIncrementedView' = FALSE
  /\ triedFallback' = FALSE
  /\ src' = Sources(videoData)
  /\ loading' = TRUE
  /\ paused' = TRUE
  /\ currentTime' = 0
  /\ playerState' = IF "isPlaceholder" \in DOMAIN videoData /\ videoData.isPlaceholder
                    THEN "Placeholder (" \o Str(Get(videoData, "status")) \o ")"
                    ELSE "Ready"
  /\ session' = session + 1
  /\ sessionPlays' = 0
  /\ stallGaps' = "none"
  /\ UNCHANGED <<serverVars, hostVars, qualityVars>>
  /\ UNCHANGED <<stallCount, lastStallTime, now, hasVhs, codecErrorShown,
                 resumeHandlers, viewPosts>>

\* Math.floor(qualityLevels.length / 2) taken for the last index
midQualityLast(length) == length - 1

\* const midQuality = Math.floor(qualityLevels.length / 2), an index from 0
midQuality(length) == length \div 2

\* the enabled flags after the mid-quality start of the 'loadedmetadata' handler
MidQualityStart ==
  IF Len(levels) > 2
  THEN [i \in 1..Len(levels) |-> (i - 1 = midQuality(Len(levels)))]
  ELSE enabled

\* the pipeline reports metadata: the one('loadedmetadata') handlers of earlier
\* failovers run in order, each seeking to its captured position and calling
\* play(); the permanent handler calls handleAspectRatio() and starts at the
\* middle tier
OnLoadedMetadata ==
  /\ loading
  /\ loading' = FALSE
  /\ currentTime' = IF resumeHandlers = <<>> THEN currentTime
                    ELSE resumeHandlers[Len(resumeHandlers)].time
  /\ resumeHandlers' = <<>>
  /\ handleAspectRatio(1, aspectRetries)
  /\ enabled' = MidQualityStart
  /\ UNCHANGED <<levels, firstPlayArmed, permissive, selection>>
  /\ UNCHANGED serverVars
  /\ UNCHANGED <<embedded, muted, volume, fullscreen, videoSize, lastTimeUpdate, logged>>
  /\ UNCHANGED <<currentVideoData, hasIncrementedView, triedFallback, stallCount,
                 lastStallTime, now, hasVhs, src, paused, playerState,
                 codecErrorShown, session, sessionPlays, viewPosts, stallGaps>>

\* player.on('play'): playback starts or resumes
OnPlay ==
  /\ paused
  /\ paused' = FALSE
  /\ playerState' = "Playing"
  /\ sessionPlays' = IF sessionPlays < 2 THEN sessionPlays + 1 ELSE sessionPlays
  /\ IF ShouldIncrementView
     THEN /\ viewPosts' = Append(viewPosts, [session |-> session,
                                             body |-> ViewBody(currentVideoData)])
          /\ hasIncrementedView' = TRUE
     ELSE UNCHANGED <<viewPosts, hasIncrementedView>>
  /\ posts' = PostedIfEmbedded([type |-> "3speak-play"])
  /\ UNCHANGED <<serverVars, qualityVars>>
  /\ UNCHANGED <<embedded, muted, volume, fullscreen, videoSize, aspectRetries,
                 lastTimeUpdate, logged>>
  /\ UNCHANGED <<currentVideoData, triedFallback, stallCount, lastStallTime, now,
                 hasVhs, src, loading, currentTime, codecErrorShown,
                 resumeHandlers, session, stallGaps>>

\* player.on('pause')
OnPause ==
  /\ ~paused
  /\ paused' = TRUE
  /\ playerState' = "Paused"
  /\ posts' = PostedIfEmbedded([type |-> "3speak-pause"])
  /\ UNCHANGED <<serverVars, qualityVars>>
  /\ UNCHANGED <<embedded, muted, volume, fullscreen, videoSize, aspectRetries,
                 lastTimeUpdate, logged>>
  /\ UNCHANGED <<currentVideoData, hasIncrementedView, triedFallback, stallCount,
                 lastStallTime, now, hasVhs, src, loading, currentTime,
                 codecErrorShown, resumeHandlers, session, sessionPlays, viewPosts, stallGaps>>

\* player.on('ended'): the media element pauses at the end of the stream
OnEnded ==
  /\ ~paused /\ ~loading /\ session > 0
  /\ paused' = TRUE
  /\ playerState' = "Ended"
  /\ posts' = PostedIfEmbedded([type |-> "3speak-ended"])
  /\ UNCHANGED <<serverVars, qualityVars>>
  /\ UNCHANGED <<embedded, muted, volume, fullscreen, videoSize, aspectRetries,
                 lastTimeUpdate, logged>>
  /\ UNCHANGED <<currentVideoData, hasIncrementedView, triedFallback, stallCount,
                 lastStallTime, now, hasVhs, src, loading, currentTime,
                 codecErrorShown, resumeHandlers, session, sessionPlays, viewPosts, stallGaps>>

\* the viewer or the host seeks; no handler of main.js listens
Seek(time) ==
  /\ session > 0 /\ time # currentTime
  /\ currentTime' = time
  /\ UNCHANGED <<serverVars, hostVars, qualityVars>>
  /\ UNCHANGED <<currentVideoData, hasIncrementedView, triedFallback, stallCount,
                 lastStallTime, now, hasVhs, src, loading, paused, playerState,
                 codecErrorShown, resumeHandlers, session, sessionPlays, viewPosts, stallGaps>>

\* time passes
Tick(step) ==
  /\ now + step <= StartTime + MaxElapsed
  /\ now' = now + step
  /\ UNCHANGED <<serverVars, hostVars, qualityVars>>
  /\ UNCHANGED <<currentVideoData, hasIncrementedView, triedFallback, stallCount,
                 lastStallTime, hasVhs, src, loading, paused, currentTime,
                 playerState, codecErrorShown, resumeHandlers, session,
                 sessionPlays, viewPosts, stallGaps>>

\* the position the failover handler captures, taken for the start of the
\* stream, where the new source begins
CapturedTimeAtStart == CHOOSE t \in Positions : \A u \in Positions : t <= u

\* const currentTime = player.currentTime() of the stall failover, read right
\* after player.src(): video.js hands the new source to the tech in a later
\* task, so the read still gives the position before the switch
CapturedTime == currentTime

\* stallCount after the stall accounting of the 'waiting' handler
StallCountAfter ==
  IF now - lastStallTime < 10000 THEN stallCount + 1 ELSE 1

\* player.on('waiting'): stall accounting, then, with VHS, the stall failover.
\* The position is read right after player.src(), which video.js applies
\* asynchronously, so the read still gives the position before the switch.
OnWaiting ==
  /\ session > 0 /\ StallCountAfter <= MaxStalls
  /\ lastStallTime' = now
  /\ stallGaps' = IF stallGaps = "none" THEN "sparse"
                  ELSE IF now - lastStallTime < 10000 THEN "dense"
                  ELSE stallGaps
  /\ IF hasVhs /\ StallCountAfter >= 3 /\ FallbackAvailable
     THEN /\ triedFallback' = TRUE
          /\ stallCount' = 0
          /\ src' = <<currentVideoData.videoUrlFallback>>
          /\ loading' = TRUE
          /\ paused' = TRUE
          /\ resumeHandlers' = Append(resumeHandlers,
                                      [session |-> session, time |-> CapturedTime])
          /\ playerState' = "Switched to backup gateway"
     ELSE /\ stallCount' = StallCountAfter
          /\ UNCHANGED <<triedFallback, src, loading, paused, resumeHandlers,
                         playerState>>
  /\ UNCHANGED <<serverVars, hostVars, qualityVars>>
  /\ UNCHANGED <<currentVideoData, hasIncrementedView, now, hasVhs, currentTime,
                 codecErrorShown, session, sessionPlays, viewPosts>>

\* playerError.code === 3, taking MEDIA_ERR_SRC_NOT_SUPPORTED for a decode error too
IsDecodeErrorOrUnsupported(code) == code \in {3, 4}

\* playerError && playerError.code === 3
IsDecodeError(code) == code = 3

\* player.on('error') with player.error().code = code
OnError(code) ==
  /\ session > 0
  /\ IF FallbackAvailable
     THEN /\ triedFallback' = TRUE
          /\ src' = <<currentVideoData.videoUrlFallback>>
          /\ loading' = TRUE
          /\ paused' = TRUE
          /\ currentTime' = 0
          /\ playerState' = IF IsDecodeError(code) THEN "Retrying with different gateway..."
                            ELSE "Retrying with fallback gateway..."
          /\ UNCHANGED codecErrorShown
     ELSE /\ codecErrorShown' = (codecErrorShown \/ IsDecodeError(code))
          /\ playerState' = IF IsDecodeError(code) THEN "Decode Error - See Console" ELSE "Error"
          /\ UNCHANGED <<triedFallback, src, loading, paused, currentTime>>
  /\ UNCHANGED <<serverVars, hostVars, qualityVars>>
  /\ UNCHANGED <<currentVideoData, hasIncrementedView, stallCount, lastStallTime,
                 now, hasVhs, resumeHandlers, session, sessionPlays, viewPosts, stallGaps>>

-----------------------------------------------------------------------------
(* main.js: the embedding interface                                        *)

\* the media pipeline reports new dimensions of the stream
SizeChange(size) ==
  /\ session > 0 /\ size # videoSize
  /\ videoSize' = size
  /\ UNCHANGED <<serverVars, playerVars, qualityVars>>
  /\ UNCHANGED <<embedded, muted, volume, fullscreen, aspectRetries, lastTimeUpdate,
                 posts, logged>>

\* 'loadeddata': the pending one('loadeddata', handleAspectRatio) handlers run
OnLoadedData ==
  /\ ~loading /\ aspectRetries > 0
  /\ handleAspectRatio(aspectRetries, 0)
  /\ UNCHANGED <<serverVars, playerVars, qualityVars>>
  /\ UNCHANGED <<embedded, muted, volume, fullscreen, videoSize, lastTimeUpdate, logged>>

\* the clock steps between 'timeupdate' events (ms)
FineSteps == {100, 150}

\* bound: the fine clock runs for MaxFineElapsed ms
MaxFineElapsed == 600

\* time passes between two 'timeupdate' events
FineTick(step) ==
  /\ now + step <= StartTime + MaxFineElapsed
  /\ now' = now + step
  /\ UNCHANGED <<serverVars, hostVars, qualityVars>>
  /\ UNCHANGED <<currentVideoData, hasIncrementedView, triedFallback, stallCount,
                 lastStallTime, hasVhs, src, loading, paused, currentTime,
                 playerState, codecErrorShown, resumeHandlers, session,
                 sessionPlays, viewPosts, stallGaps>>

\* the throttle of the 'timeupdate' handler, measured from the page load
ThrottledFromPageLoad == now - StartTime < 250

\* the throttle of the 'timeupdate' handler
Throttled == now - lastTimeUpdate < 250

\* the message the 'timeupdate' handler builds (duration is left out)
TimeUpdateMessage ==
  [type |-> "3speak-timeupdate", currentTime |-> currentTime, paused |-> paused,
   muted |-> muted, volume |-> volume]

\* player.on('timeupdate')
OnTimeUpdate ==
  /\ session > 0 /\ ~loading
  /\ IF embedded /\ ~Throttled
     THEN /\ lastTimeUpdate' = now
          /\ posts' = Posted(TimeUpdateMessage, 1)
     ELSE UNCHANGED <<lastTimeUpdate, posts>>
  /\ UNCHANGED <<serverVars, playerVars, qualityVars>>
  /\ UNCHANGED <<embedded, muted, volume, fullscreen, videoSize, aspectRetries, logged>>

\* a value of a message field: a number (volumes and steps in tenths, times in
\* seconds), NaN, a string, or undefined when the field is absent
Num(n) == [t |-> "number", v |-> n]
NotANumber == [t |-> "NaN"]
Text(str) == [t |-> "string", v |-> str]
Undef == [t |-> "undefined"]

\* data.field for a field that carries a value
Field(data, field) == IF field \in DOMAIN data THEN data[field] ELSE Undef

\* typeof x === 'number'
TypeofNumber(x) == x.t \in {"number", "NaN"}

\* !x
FalsyValue(x) ==
  \/ x.t \in {"undefined", "NaN"}
  \/ x.t = "number" /\ x.v = 0
  \/ x.t = "string" /\ x.v = ""

\* Math.min(a, b) that returns its first argument
MathMinFirst(a, b) == a

\* Math.min(a, b), Math.max(a, b) on numbers
MathMin(a, b) == IF a < b THEN a ELSE b
MathMax(a, b) == IF a > b THEN a ELSE b

\* the length of the stream (seconds)
MediaDuration == 20

\* the position after player.currentTime(seconds): video.js raises a negative
\* position to 0 and the media element stops at the end of the stream
SeekTo(seconds) == MathMax(0, MathMin(MediaDuration, seconds))

\* the volume after player.volume(vol): video.js keeps it inside [0, 1]
PlayerVolume(vol) == MathMax(0, MathMin(FullVolume, vol))

\* var stepUp = data.step || 0.1 (stepDown likewise)
StepOf(data) ==
  IF FalsyValue(Field(data, "step")) THEN DefaultStep ELSE Field(data, "step").v

\* the argument of player.volume() in case 'setVolume', for a number
SetVolumeArgument(vol) == MathMax(0, MathMin(FullVolume, vol))

\* the argument of player.volume() in case 'volumeUp'
VolumeUpArgument(currentVol, stepUp) == MathMin(FullVolume, currentVol + stepUp)

\* the argument of player.volume() in case 'volumeDown'
VolumeDownArgument(currentVolDown, stepDown) == MathMax(0, currentVolDown - stepDown)

\* event.data that is null, and event.data that is the string 'play'
NoData == [null |-> TRUE]
StringData == [primitive |-> "play"]

\* const command = data.type || data.action || data.command, reading action first
CommandOfActionFirst(data) ==
  IF ~Falsy(Get(data, "action")) THEN data.action
  ELSE IF ~Falsy(Get(data, "type")) THEN data.type
  ELSE Get(data, "command")

\* const command = data.type || data.action || data.command
CommandOf(data) ==
  IF ~Falsy(Get(data, "type")) THEN data.type
  ELSE IF ~Falsy(Get(data, "action")) THEN data.action
  ELSE Get(data, "command")

\* the case labels of the switch
Commands ==
  {"play", "playVideo", "pause", "pauseVideo", "toggle-play", "togglePlay",
   "mute", "unmute", "toggleMute", "seek", "seekForward", "seekBackward",
   "toggleFullscreen", "toggle-fullscreen", "enterFullscreen", "enter-fullscreen",
   "exitFullscreen", "exit-fullscreen", "setVolume", "set-volume",
   "volumeUp", "volume-up", "volumeDown", "volume-down", "getState", "get-state"}

\* bound: the replies to getState are followed up to MaxStateReplies
MaxStateReplies == 1

\* the origins a message event can carry: the embedding site and another site
Origins == {"https://3speak.tv", "https://other.example"}

\* the messages sent to the page
MessageDatas ==
  {NoData, StringData,
   [type |-> "play"], [action |-> "pauseVideo"], [command |-> "togglePlay"],
   [type |-> "mute"], [type |-> "unmute"], [command |-> "toggleMute"],
   [type |-> "seek", time |-> Num(20)], [type |-> "seek", time |-> Num(45)],
   [type |-> "seek", time |-> Num(-5)], [type |-> "seek", time |-> Text("20")],
   [type |-> "seekForward"], [type |-> "seekBackward"],
   [type |-> "toggleFullscreen"], [type |-> "enter-fullscreen"],
   [type |-> "exitFullscreen"],
   [type |-> "setVolume", volume |-> Num(3)],
   [type |-> "set-volume", volume |-> Num(15)],
   [action |-> "setVolume", volume |-> Num(-5)],
   [type |-> "setVolume", volume |-> Text("5")], [type |-> "setVolume"],
   [type |-> "setVolume", volume |-> NotANumber],
   [type |-> "volumeUp"], [type |-> "volume-down", step |-> Num(3)],
   [type |-> "volume-up", step |-> Num(-3)], [type |-> "volumeDown", step |-> Num(-3)],
   [type |-> "volumeUp", step |-> Num(15)],
   [type |-> "getState"],
   [type |-> "destroy"], [type |-> "Play"],
   [type |-> "reload", action |-> "play"], [volume |-> Num(3)]}

\* the outcomes of play() under the autoplay policy: it starts with sound, it
\* starts only after the fallback to muted, or both attempts are rejected
PlayOutcomes == {"sound", "muted", "blocked"}

\* the message the getState command answers with (the values read from the
\* player at the call are left out)
StateMessage == [type |-> "3speak-state"]

\* window.addEventListener('message', ...) for one event; the promise callbacks
\* of play() are taken with the handler
Message(origin, data) ==
  LET command == CommandOf(data)
      seconds == IF FalsyValue(Field(data, "seconds")) THEN 10
                 ELSE Field(data, "seconds").v
      step == StepOf(data)
      set(p, m, v, t, f) ==
        /\ paused' = p /\ muted' = m /\ volume' = v /\ currentTime' = t
        /\ fullscreen' = f
  IN
  /\ session > 0
  /\ logged' = data
  /\ IF data = NoData \/ command \notin Commands
     THEN UNCHANGED <<paused, muted, volume, currentTime, fullscreen, posts>>
     ELSE
       \/ /\ command \in {"play", "playVideo"}
          /\ \E outcome \in PlayOutcomes :
               set(IF outcome = "blocked" THEN paused ELSE FALSE,
                   outcome # "sound", volume, currentTime, fullscreen)
          /\ posts' = posts
       \/ /\ command \in {"pause", "pauseVideo"}
          /\ set(TRUE, muted, volume, currentTime, fullscreen)
          /\ posts' = posts
       \/ /\ command \in {"toggle-play", "togglePlay"}
          /\ IF paused
             THEN \E started \in BOOLEAN :
                    set(~started, muted, volume, currentTime, fullscreen)
             ELSE set(TRUE, muted, volume, currentTime, fullscreen)
          /\ posts' = posts
       \/ /\ command = "mute"
          /\ set(paused, TRUE, volume, currentTime, fullscreen)
          /\ posts' = posts
       \/ /\ command = "unmute"
          /\ set(paused, FALSE, volume, currentTime, fullscreen)
          /\ posts' = posts
       \/ /\ command = "toggleMute"
          /\ set(paused, ~muted, volume, currentTime, fullscreen)
          /\ posts' = posts
       \/ /\ command = "seek"
          /\ set(paused, muted, volume,
                 IF Field(data, "time").t = "number"
                 THEN SeekTo(Field(data, "time").v) ELSE currentTime,
                 fullscreen)
          /\ posts' = posts
       \/ /\ command = "seekForward"
          /\ set(paused, muted, volume, SeekTo(currentTime + seconds), fullscreen)
          /\ posts' = posts
       \/ /\ command = "seekBackward"
          /\ set(paused, muted, volume, SeekTo(currentTime - seconds), fullscreen)
          /\ posts' = posts
       \/ /\ command \in {"toggleFullscreen", "toggle-fullscreen"}
          /\ IF fullscreen
             THEN set(paused, muted, volume, currentTime, FALSE)
             ELSE \E granted \in BOOLEAN :
                    set(paused, muted, volume, currentTime, granted)
          /\ posts' = posts
       \/ /\ command \in {"enterFullscreen", "enter-fullscreen"}
          /\ IF fullscreen
             THEN set(paused, muted, volume, currentTime, fullscreen)
             ELSE \E granted \in BOOLEAN :
                    set(paused, muted, volume, currentTime, granted)
          /\ posts' = posts
       \/ /\ command \in {"exitFullscreen", "exit-fullscreen"}
          /\ set(paused, muted, volume, currentTime, FALSE)
          /\ posts' = posts
       \/ /\ command \in {"setVolume", "set-volume"}
          /\ IF TypeofNumber(Field(data, "volume")) /\ Field(data, "volume") # NotANumber
             THEN LET vol == SetVolumeArgument(Field(data, "volume").v)
                  IN set(paused, IF vol > 0 THEN FALSE ELSE muted, PlayerVolume(vol),
                         currentTime, fullscreen)
             ELSE set(paused, muted, volume, currentTime, fullscreen)
          /\ posts' = posts
       \/ /\ command \in {"volumeUp", "volume-up"}
          /\ set(paused, FALSE, PlayerVolume(VolumeUpArgument(volume, step)),
                 currentTime, fullscreen)
          /\ posts' = posts
       \/ /\ command \in {"volumeDown", "volume-down"}
          /\ set(paused, muted, PlayerVolume(VolumeDownArgument(volume, step)),
                 currentTime, fullscreen)
          /\ posts' = posts
       \/ /\ command \in {"getState", "get-state"}
          /\ embedded => Len(posts) < MaxStateReplies
          /\ set(paused, muted, volume, currentTime, fullscreen)
          /\ posts' = PostedIfEmbedded(StateMessage)
  /\ UNCHANGED <<serverVars, qualityVars>>
  /\ UNCHANGED <<embedded, videoSize, aspectRetries, lastTimeUpdate>>
  /\ UNCHANGED <<currentVideoData, hasIncrementedView, triedFallback, stallCount,
                 lastStallTime, now, hasVhs, src, loading, playerState,
                 codecErrorShown, resumeHandlers, session, sessionPlays, stallGaps,
                 viewPosts>>

-----------------------------------------------------------------------------
(* Quality tiers: start at the middle tier, upgrade eagerly after the first *)
(* play                                                                     *)

\* the master playlists of the videos, BANDWIDTH in bit/s in the order of the
\* manifest: none (a progressive source), one to four tiers, ascending,
\* descending or mixed
Manifests ==
  {<<>>, <<800000>>, <<800000, 2000000>>,
   <<800000, 2000000, 4500000>>, <<4500000, 2000000, 800000>>,
   <<2000000, 800000, 4500000, 1200000>>}

\* the most tiers a manifest of Manifests has
MaxTiers == 4

\* the source's manifest is parsed while it loads: its tiers, all enabled
ManifestParsed(playlists) ==
  /\ loading
  /\ levels' = playlists
  /\ enabled' = [i \in 1..Len(playlists) |-> TRUE]
  /\ UNCHANGED <<firstPlayArmed, permissive, selection>>
  /\ UNCHANGED <<serverVars, playerVars, hostVars>>

\* the streaming engine or a quality menu switches tier i on or off
ToggleLevel(i) ==
  /\ i \in 1..Len(levels)
  /\ enabled' = [enabled EXCEPT ![i] = ~enabled[i]]
  /\ UNCHANGED <<levels, firstPlayArmed, permissive, selection>>
  /\ UNCHANGED <<serverVars, playerVars, hostVars>>

\* player.one('firstplay'): the override is installed when the tech has a
\* streaming engine with selectPlaylist
OnFirstPlay ==
  /\ firstPlayArmed
  /\ ~loading
  /\ firstPlayArmed' = FALSE
  /\ permissive' = hasVhs
  /\ UNCHANGED <<levels, enabled, selection>>
  /\ UNCHANGED <<serverVars, playerVars, hostVars>>

\* the throughput figures of the streaming engine: 0 before a measurement
SystemBandwidths == {0, 1000000, 3000000}
Bandwidths == {0, 400000}

\* vhs.systemBandwidth || vhs.bandwidth || 2500000
currentBandwidth(systemBandwidth, bandwidth) ==
  IF systemBandwidth # 0 THEN systemBandwidth
  ELSE IF bandwidth # 0 THEN bandwidth
  ELSE 2500000

\* p.attributes.BANDWIDTH <= targetBandwidth, targetBandwidth being
\* currentBandwidth * 1.5
IsEligible(BANDWIDTH, throughput) == 2 * BANDWIDTH <= 3 * throughput

\* levels.filter(...): the indices of the eligible tiers, in manifest order
eligibleLevels(throughput) ==
  {i \in 1..Len(levels) : IsEligible(levels[i], throughput)}

\* eligibleLevels[eligibleLevels.length - 1]
upgraded(throughput) ==
  CHOOSE i \in eligibleLevels(throughput) :
    \A j \in eligibleLevels(throughput) : j <= i

\* tech.vhs.selectPlaylist(): playlist is the tier the original selection
\* gives, 0 for none
SelectPlaylist(systemBandwidth, bandwidth, playlist) ==
  /\ hasVhs
  /\ ~loading
  /\ playlist \in 0..Len(levels)
  /\ LET throughput == currentBandwidth(systemBandwidth, bandwidth)
     IN selection' =
          [systemBandwidth |-> systemBandwidth, bandwidth |-> bandwidth,
           playlist |-> playlist, overridden |-> permissive,
           returned |-> IF permissive /\ eligibleLevels(throughput) # {}
                        THEN upgraded(throughput)
                        ELSE playlist]
  /\ UNCHANGED <<levels, enabled, firstPlayArmed, permissive>>
  /\ UNCHANGED <<serverVars, playerVars, hostVars>>

-----------------------------------------------------------------------------
(* Specifications                                                          *)

\* the resolution endpoints, under every configuration
InitResolve ==
  /\ ServerInit(Envs) /\ PlayerStart({TRUE}) /\ HostStart({FALSE}, {NoSize})
  /\ QualityStart({<<>>})

NextResolve ==
  \/ \E v \in VParams : Watch(v)
  \/ \E v \in VParams : Embed(v)

SpecResolve == InitResolve /\ [][NextResolve]_vars

\* view accounting, under the configuration with every placeholder set
Init ==
  /\ ServerInit({EnvConfigured}) /\ PlayerStart({TRUE}) /\ HostStart({FALSE}, {NoSize})
  /\ QualityStart({<<>>})

Next ==
  \/ \E body \in ViewBodies : View(body)
  \/ \E r \in BagToSet(viewReqs) : IncrementLegacyViews(r)
  \/ \E r \in BagToSet(viewReqs) : InitEmbedViews(r)
  \/ \E r \in BagToSet(viewReqs) : IncrementEmbedViews(r)

Spec == Init /\ [][Next]_vars

\* view accounting while the encoding pipeline writes statuses
NextPipeline ==
  \/ \E body \in ViewBodies : View(body)
  \/ \E r \in BagToSet(viewReqs) : IncrementLegacyViews(r)
  \/ \E r \in BagToSet(viewReqs) : InitEmbedViews(r)
  \/ \E r \in BagToSet(viewReqs) : IncrementEmbedViews(r)
  \/ \E type \in {"legacy", "embed"}, status \in PipelineStatuses :
       PipelineSetsStatus(type, status)

SpecPipeline == Init /\ [][NextPipeline]_vars

\* the playback controller of one page, against a server that does not change
InitPlayer ==
  /\ env = EnvConfigured
  /\ videos = TheKey :> PublishedLegacy
  /\ embedVideos = TheKey :> PublishedEmbed
  /\ viewReqs = EmptyBag
  /\ response = NoExchange
  /\ posted = 0
  /\ PlayerStart(BOOLEAN)
  /\ HostStart({FALSE}, {<<1920, 1080>>})
  /\ QualityStart({<<>>})

NextPlayer ==
  \/ \E videoData \in VideoDatas : loadVideoFromData(videoData)
  \/ OnLoadedMetadata
  \/ OnPlay
  \/ OnPause
  \/ OnEnded
  \/ \E time \in Positions : Seek(time)
  \/ \E step \in ClockSteps : Tick(step)
  \/ OnWaiting
  \/ \E code \in ErrorCodes : OnError(code)

SpecPlayer == InitPlayer /\ [][NextPlayer]_vars

\* the announcements of a page, inside a frame or not, whose sources fail
InitNotify ==
  /\ env = EnvConfigured
  /\ videos = TheKey :> PublishedLegacy
  /\ embedVideos = TheKey :> PublishedEmbed
  /\ viewReqs = EmptyBag
  /\ response = NoExchange
  /\ posted = 0
  /\ PlayerStart({TRUE})
  /\ HostStart(BOOLEAN, {NoSize})
  /\ QualityStart({<<>>})

NextNotify ==
  \/ \E videoData \in VideoDatas : loadVideoFromData(videoData)
  \/ OnLoadedMetadata
  \/ OnLoadedData
  \/ \E size \in VideoSizes : SizeChange(size)
  \/ \E code \in ErrorCodes : OnError(code)

SpecNotify == InitNotify /\ [][NextNotify]_vars

\* a page that has loaded the video of RealVideoData
LoadedPage(frames) ==
  /\ env = EnvConfigured
  /\ videos = TheKey :> PublishedLegacy
  /\ embedVideos = TheKey :> PublishedEmbed
  /\ viewReqs = EmptyBag
  /\ response = NoExchange
  /\ posted = 0
  /\ currentVideoData = RealVideoData
  /\ hasIncrementedView = FALSE
  /\ triedFallback = FALSE
  /\ stallCount = 0
  /\ lastStallTime = 0
  /\ now = StartTime
  /\ hasVhs = TRUE
  /\ src = Sources(RealVideoData)
  /\ loading = FALSE
  /\ paused = TRUE
  /\ currentTime = 0
  /\ playerState = "Ready"
  /\ codecErrorShown = FALSE
  /\ resumeHandlers = <<>>
  /\ session = 1
  /\ sessionPlays = 0
  /\ stallGaps = "none"
  /\ viewPosts = <<>>
  /\ HostStart(frames, {<<1920, 1080>>})
  /\ QualityStart({<<>>})

\* the commands of the host, sent to a page in a frame
InitHost == LoadedPage({TRUE})

\* the time updates of a page, inside a frame or not
InitThrottle == LoadedPage(BOOLEAN)

NextThrottle ==
  \/ OnTimeUpdate
  \/ \E step \in FineSteps : FineTick(step)

NextHost ==
  \E origin \in Origins, data \in MessageDatas : Message(origin, data)

SpecHost == InitHost /\ [][NextHost]_vars

SpecThrottle == InitThrottle /\ [][NextThrottle]_vars

\* the quality tiers of a page whose videos come with any of the manifests
InitQuality ==
  /\ env = EnvConfigured
  /\ videos = TheKey :> PublishedLegacy
  /\ embedVideos = TheKey :> PublishedEmbed
  /\ viewReqs = EmptyBag
  /\ response = NoExchange
  /\ posted = 0
  /\ PlayerStart(BOOLEAN)
  /\ HostStart({FALSE}, {<<1920, 1080>>})
  /\ QualityStart({<<>>})

NextQuality ==
  \/ loadVideoFromData(RealVideoData)
  \/ \E playlists \in Manifests : ManifestParsed(playlists)
  \/ OnLoadedMetadata
  \/ \E i \in 1..MaxTiers : ToggleLevel(i)
  \/ OnFirstPlay
  \/ \E systemBandwidth \in SystemBandwidths, bandwidth \in Bandwidths,
        playlist \in 0..MaxTiers : SelectPlaylist(systemBandwidth, bandwidth, playlist)

SpecQuality == InitQuality /\ [][NextQuality]_vars

-----------------------------------------------------------------------------
(* Properties: view increment of the playback controller (SpecPlayer)      *)

\* the POST /api/view requests sent during session n
PostsOf(n) == SelectSeq(viewPosts, LAMBDA post : post.session = n)

\* C1: within one playback session (from one loadVideoFromData call to the
\* next) incrementViewCount is invoked exactly once, on the first 'play' event:
\* the session has no POST /api/view before its first 'play' event and exactly
\* one, carrying the session's owner, permlink and type, from then on, whatever
\* pause, resume, ended, replay, seek, stall or error events follow; the
\* sessions before it keep at most one each.
C1_ViewOncePerSession ==
  /\ \A n \in 1..session : Len(PostsOf(n)) <= 1
  /\ Len(PostsOf(0)) = 0
  /\ session > 0 =>
       IF sessionPlays = 0
       THEN PostsOf(session) = <<>>
       ELSE PostsOf(session) =
              <<[session |-> session, body |-> ViewBody(currentVideoData)]>>

\* a second session that was played, stalled over to the fallback, hit a decode
\* error, and was played again, with its single view request
C1_Witness ==
  /\ session = 2
  /\ sessionPlays = 2
  /\ triedFallback
  /\ codecErrorShown
  /\ resumeHandlers # <<>>
  /\ playerState = "Playing"
  /\ Len(PostsOf(1)) = 1
  /\ Len(PostsOf(2)) = 1

-----------------------------------------------------------------------------
(* Properties: view accounting gate (Spec)                                 *)

TheV == "alice/p1"

\* the views a collection holds for the document under TheKey
Views(collection) == ViewsOrZero(collection[TheKey])

\* the document's status, lower-cased, is one of the four countable statuses
CountableStatus(video) ==
  /\ Get(video, "status") \notin {UNDEFINED, NULL}
  /\ toLowerCase(video.status) \in
       {"published", "scheduled", "publish_later", "publish_manual"}

NotCountedBody ==
  [success |-> FALSE, counted |-> FALSE, reason |-> "Video not in published state"]

\* C2: POST /api/view increments the views of the addressed document if and
\* only if its lower-cased status is published, scheduled, publish_later or
\* publish_manual.  A step that receives a request either answers it, and then
\* the document it found has another status, the answer is 200 with
\* success:false, counted:false and a reason, and no counter moves; or it
\* suspends it, and then the document it found has a countable status.  A step
\* that completes a suspended request adds exactly one view to the collection
\* the request names and answers counted:true; no other step moves a counter.
C2_ViewCountsIffReadyStatus ==
  [][LET legacyUp == Views(videos') - Views(videos)
         embedUp == Views(embedVideos') - Views(embedVideos)
         more == BagCardinality(viewReqs') - BagCardinality(viewReqs)
     IN /\ posted' # posted =>
             /\ legacyUp = 0 /\ embedUp = 0
             /\ \/ /\ more = 0
                   /\ response'.endpoint = "view"
                   /\ response'.video # NoDocument =>
                        /\ ~CountableStatus(response'.video)
                        /\ response'.code = 200
                        /\ response'.body = NotCountedBody
                \/ /\ more = 1
                   /\ \A r \in BagToSet(viewReqs') : CountableStatus(r.video)
        /\ more = -1 =>
             /\ response'.endpoint = "view" /\ response'.code = 200
             /\ response'.body = [success |-> TRUE, counted |-> TRUE]
             /\ CountableStatus(response'.video)
             /\ legacyUp = (IF response'.request.type = "legacy" THEN 1 ELSE 0)
             /\ embedUp = (IF response'.request.type = "embed" THEN 1 ELSE 0)
        /\ (posted' = posted /\ more # -1) => (legacyUp = 0 /\ embedUp = 0)
    ]_vars

\* a request on an encoding_ipfs document was answered counted:false after a
\* request on the published document of the other collection was counted
C2_Witness ==
  /\ response.endpoint = "view"
  /\ response.video # NoDocument
  /\ Get(response.video, "status") = "encoding_ipfs"
  /\ response.body = NotCountedBody
  /\ Views(videos) + Views(embedVideos) = 1

\* what GET /api/watch (legacy) or GET /api/embed answers for TheKey now
Resolution(type) == IF type = "legacy" THEN watchExchange(TheV) ELSE embedExchange(TheV)

Collection(type) == IF type = "legacy" THEN videos ELSE embedVideos

\* C3: for both collection kinds, when resolution of a document answers
\* isPlaceholder:true, no POST /api/view for that document is counted: its
\* views stay where they started (0), no request for it is suspended at the
\* increment, and an answered request for it says counted:false.
C3_PlaceholderNeverCounts ==
  \A type \in {"legacy", "embed"} :
    (Resolution(type).code = 200 /\ Resolution(type).body.isPlaceholder) =>
      /\ Views(Collection(type)) = 0
      /\ \A r \in BagToSet(viewReqs) : r.body.type # type
      /\ (response.endpoint = "view" /\ Get(response.request, "type") = type
            /\ response.video # NoDocument) => response.body.counted = FALSE

\* two view requests were made for an embed document that resolves to a
\* placeholder, and the second was answered
C3_Witness ==
  /\ Resolution("embed").code = 200
  /\ Resolution("embed").body.isPlaceholder
  /\ posted = 2
  /\ response.endpoint = "view"
  /\ Get(response.request, "type") = "embed"
  /\ response.video # NoDocument

-----------------------------------------------------------------------------
(* Properties: resolution (SpecResolve)                                    *)

ChainFields == {"videoUrl", "videoUrlFallback1", "videoUrlFallback2", "videoUrlFallback3"}

\* the exchange is a resolution of a document that was found
Resolving == response.endpoint \in {"watch", "embed"} /\ response.video # NoDocument

HasChain(body) ==
  /\ ChainFields \subseteq DOMAIN body
  /\ \A f \in ChainFields : ~Falsy(body[f])
  /\ "isPlaceholder" \in DOMAIN body /\ body.isPlaceholder \in BOOLEAN

HasError(body) == "error" \in DOMAIN body /\ ~Falsy(body.error)

\* C4: every resolution of a document answers either with a chain (200, four
\* non-empty URLs, isPlaceholder true or false) and no error, or with an
\* error (not 200) and no chain field; never both, never neither, and never
\* an empty chain entry.
C4_ChainXorError ==
  Resolving =>
    \/ /\ response.code = 200
       /\ HasChain(response.body) /\ ~HasError(response.body)
    \/ /\ response.code # 200
       /\ HasError(response.body) /\ DOMAIN response.body \cap ChainFields = {}
       /\ "isPlaceholder" \notin DOMAIN response.body

\* a placeholder lookup under a blank configuration ended in an error
C4_Witness ==
  /\ Resolving /\ env = EnvBlank
  /\ response.code = 404
  /\ response.body.error = "Placeholder configuration error"

\* the argument getVideoUrls is called with for the document of the exchange
ChainInput ==
  IF response.endpoint = "watch" THEN response.video.video_v2
  ELSE "ipfs://" \o response.video.manifest_cid \o "/manifest.m3u8"

\* the exchange served a real chain
RealChain == Resolving /\ response.code = 200 /\ ~response.body.isPlaceholder

\* C5: getVideoUrls returns exactly the four entries primary, fallback1,
\* fallback2, fallback3, none missing, for every input it is called with; for
\* an input that does not start with ipfs:// the four entries are the input.
C5_ChainOfFour ==
  RealChain =>
    LET chain == getVideoUrls(ChainInput)
    IN /\ DOMAIN chain = {"primary", "fallback1", "fallback2", "fallback3"}
       /\ \A k \in DOMAIN chain : chain[k] \notin {UNDEFINED, NULL, ""}
       /\ <<response.body.videoUrl, response.body.videoUrlFallback1,
            response.body.videoUrlFallback2, response.body.videoUrlFallback3>>
          = <<chain.primary, chain.fallback1, chain.fallback2, chain.fallback3>>
       /\ ~(Len(ChainInput) >= 7 /\ SubSeq(ChainInput, 1, 7) = "ipfs://") =>
            \A k \in DOMAIN chain : chain[k] = ChainInput

\* a real chain was served for a source that is a plain https URL
C5_Witness ==
  /\ RealChain /\ response.endpoint = "watch"
  /\ response.video.video_v2 = "https://host/v.m3u8"
  /\ response.body.videoUrlFallback3 = "https://host/v.m3u8"

\* C6: for a legacy document with a publish-ready status whose video_v2 is
\* ipfs://<path>, /api/watch answers isPlaceholder:false and the chain
\* <gateway>/<path> for the gateways CDN, supernode, hotnode, audionode, in
\* that order.
C6_GatewayOrder ==
  (/\ response.endpoint = "watch" /\ response.video # NoDocument
   /\ CountableStatus(response.video)
   /\ ~Falsy(Get(response.video, "video_v2"))
   /\ Len(response.video.video_v2) >= 7
   /\ SubSeq(response.video.video_v2, 1, 7) = "ipfs://") =>
    LET path == SubSeq(response.video.video_v2, 8, Len(response.video.video_v2))
    IN /\ response.code = 200
       /\ response.body.isPlaceholder = FALSE
       /\ response.body.videoUrl = "https://ipfs-3speak.b-cdn.net/ipfs/" \o path
       /\ response.body.videoUrlFallback1 = "https://ipfs.3speak.tv/ipfs/" \o path
       /\ response.body.videoUrlFallback2 = "https://hotipfs-1.3speak.tv/ipfs/" \o path
       /\ response.body.videoUrlFallback3 = "https://ipfs-audio.3speak.tv/ipfs/" \o path

\* /api/watch served the chain of a scheduled document stored as ipfs://CID123
C6_Witness ==
  /\ response.endpoint = "watch" /\ response.code = 200
  /\ response.video.status = "scheduled"
  /\ response.video.video_v2 = "ipfs://CID123"
  /\ response.body.videoUrl = "https://ipfs-3speak.b-cdn.net/ipfs/CID123"

\* the category the resolver of the exchange puts the document in
Category(endpoint, video) ==
  IF endpoint = "watch" THEN LegacyCategory(lowerStatus(video))
  ELSE EmbedCategory(lowerStatus(video), Get(video, "manifest_cid"))

\* the placeholder URLs that EnvConfigured configures, by category
ConfiguredPlaceholder ==
  [Deleted |-> "https://cdn.example/deleted.m3u8",
   Processing |-> "https://ipfs.3speak.tv/ipfs/QmProcessing",
   Failed |-> "https://ipfs.3speak.tv/ipfs/QmFailed"]

\* the exchange served the placeholder url in all four slots
ServesPlaceholder(url) ==
  /\ response.code = 200
  /\ response.body.isPlaceholder = TRUE
  /\ \A f \in ChainFields : response.body[f] = url

\* C7: with the placeholders configured, a document classified Deleted,
\* Processing or Failed resolves to isPlaceholder:true with all four URL
\* fields equal to the configured placeholder URL of that same category.
C7_PlaceholderOfCategory ==
  (/\ Resolving /\ env = EnvConfigured
   /\ Category(response.endpoint, response.video) \in {"Deleted", "Processing", "Failed"}) =>
    ServesPlaceholder(ConfiguredPlaceholder[Category(response.endpoint, response.video)])

\* /api/watch served the failed placeholder for an encoding_failed document
C7_Witness ==
  /\ Resolving /\ env = EnvConfigured /\ response.endpoint = "watch"
  /\ Get(response.video, "status") = "encoding_failed"
  /\ response.body.videoUrlFallback2 = "https://ipfs.3speak.tv/ipfs/QmFailed"

Categories == {"Deleted", "Processing", "Failed", "Ready", "Unknown"}

\* every status literal the two resolvers test for
RecognisedStatuses ==
  {"delete", "deleted", "self_deleted", "encoding_ipfs", "ipfs_pinning",
   "uploaded", "uploading", "processing", "finalizing", "encoding_failed",
   "failed", "publish_later", "publish_manual", "published", "scheduled"}

\* C8: in both resolvers the classification is total and case-insensitive:
\* every document resolved gets one of the five categories, the same one as
\* the document whose status is written in lower case or in upper case, and
\* a status that is absent, null or not a recognised literal gets Unknown.
C8_ClassificationTotal ==
  Resolving =>
    LET video == response.video
        raw == Get(video, "status")
        category == Category(response.endpoint, video)
    IN /\ category \in Categories
       /\ raw \in {UNDEFINED, NULL} => category = "Unknown"
       /\ raw \notin {UNDEFINED, NULL} =>
            /\ \A s \in StatusInputs \ {NULL} :
                 toLowerCase(s) = toLowerCase(raw) =>
                   Category(response.endpoint, WithStatus(video, s)) = category
            /\ toLowerCase(raw) \notin RecognisedStatuses => category = "Unknown"

\* a document whose status is written Encoding_IPFS was resolved
C8_Witness ==
  /\ Resolving
  /\ Get(response.video, "status") = "Encoding_IPFS"
  /\ Category(response.endpoint, response.video) = "Processing"

\* C9: for both collection kinds, a document whose status is an in-flight
\* status, the aliases uploading, processing and finalizing included, is
\* classified Processing and, the placeholders being configured, resolves to
\* the processing placeholder chain.
C9_InFlightIsProcessing ==
  (/\ Resolving /\ env = EnvConfigured
   /\ Get(response.video, "status") \notin {UNDEFINED, NULL}
   /\ toLowerCase(response.video.status) \in
        {"encoding_ipfs", "ipfs_pinning", "uploaded",
         "uploading", "processing", "finalizing"}) =>
    /\ Category(response.endpoint, response.video) = "Processing"
    /\ ServesPlaceholder(ConfiguredPlaceholder.Processing)

\* C10: for both collection kinds, a document with a publish-ready status
\* whose source (video_v2, manifest_cid for embed) is present is classified
\* Ready and resolves to a real chain with isPlaceholder:false.
C10_PublishReadyIsReady ==
  (/\ Resolving
   /\ CountableStatus(response.video)
   /\ ~Falsy(Get(response.video,
                 IF response.endpoint = "watch" THEN "video_v2" ELSE "manifest_cid"))) =>
    /\ Category(response.endpoint, response.video) = "Ready"
    /\ response.code = 200
    /\ response.body.isPlaceholder = FALSE

-----------------------------------------------------------------------------
(* Properties: resolution errors (SpecResolve)                             *)

\* the error messages of the not-found, configuration and internal failures
OtherErrors ==
  {"Video not found", "Placeholder configuration error", "Internal server error"}

UnknownStatus(video) ==
  \/ Get(video, "status") \in {UNDEFINED, NULL}
  \/ toLowerCase(video.status) \notin RecognisedStatuses

\* what the endpoint answers for a document, as the handler computes it
ResolveDoc(endpoint, video) ==
  IF endpoint = "watch"
  THEN Resolved("watch", "legacy", TheV, video, getVideoUrlsForLegacyStatus(video))
  ELSE Resolved("embed", "embed", TheV, video, getVideoUrlsForEmbedStatus(video))

\* a published document without its source field
ReadyWithoutSource == [owner |-> TheOwner, permlink |-> ThePermlink,
                       status |-> "published"]

\* C12: in both resolvers a document with an Unknown status is refused with
\* an error that carries the raw status, and that error differs from the
\* error the same resolver gives a published document without its source.
C12_NotReadyDistinctFromSourceUnavailable ==
  (Resolving /\ UnknownStatus(response.video)) =>
    /\ response.code = 404
    /\ HasError(response.body)
    /\ response.body.status = Get(response.video, "status")
    /\ response.body.error # ResolveDoc(response.endpoint, ReadyWithoutSource).body.error

\* the placeholder setting a category reads
PlaceholderSetting ==
  [Deleted |-> "PLACEHOLDER_DELETED_CID", Processing |-> "PLACEHOLDER_PROCESSING_CID",
   Failed |-> "PLACEHOLDER_FAILED_CID"]

\* C13: when a document is classified Deleted, Processing or Failed and the
\* placeholder setting of that category is missing, the resolution fails with
\* the placeholder configuration error carrying the raw status: it is not a
\* success, not a not-found and not a generic internal error.
C13_MissingPlaceholderIsConfigurationError ==
  (/\ Resolving
   /\ Category(response.endpoint, response.video) \in DOMAIN PlaceholderSetting
   /\ PlaceholderSetting[Category(response.endpoint, response.video)] \notin DOMAIN env) =>
    /\ response.code # 200
    /\ response.body.error = "Placeholder configuration error"
    /\ Get(response.body, "status") = Get(response.video, "status")

\* the number of '/' in s at or after position from
RECURSIVE Slashes(_, _)
Slashes(s, from) ==
  IF IndexOf(s, "/", from) = 0 THEN 0
  ELSE 1 + Slashes(s, IndexOf(s, "/", from) + 1)

\* v splits on '/' into exactly two segments, both non-empty
WellFormed(v) ==
  /\ v # UNDEFINED
  /\ Slashes(v, 1) = 1
  /\ IndexOf(v, "/", 1) > 1
  /\ IndexOf(v, "/", 1) < Len(v)

\* C14: GET /api/watch and GET /api/embed answer 400 exactly when v is
\* missing or does not split on '/' into exactly two non-empty segments; only
\* a well-formed owner/permlink reaches the lookup.
C14_MalformedIdentifierRejected ==
  response.endpoint \in {"watch", "embed"} =>
    (response.code = 400 <=> ~WellFormed(response.request))

-----------------------------------------------------------------------------
(* Properties: view requests and the store (Spec, SpecResolve)             *)

\* the request body lacks owner, permlink or type
MissingFields(body) ==
  \E f \in {"owner", "permlink", "type"} : Falsy(Get(body, f))

\* the collection the body names holds a document under its owner and permlink
RecordExists(body) ==
  <<body.owner, body.permlink>> \in DOMAIN Collection(body.type)

\* the view requests of a collection kind suspended at db.js
Pending(type) ==
  BagCardinality(BagOfAll(LAMBDA r : r.body.type,
                          [r \in {q \in BagToSet(viewReqs) : q.body.type = type}
                             |-> viewReqs[r]]))

\* C15: POST /api/view answers 400 exactly when owner, permlink or type is
\* missing or type is neither legacy nor embed, and 404 exactly when the
\* fields are valid and no document matches; a request that goes on to the
\* increment has valid fields and a document; and a step that answers 400 or
\* 404 changes the views of no document.
C15_ViewRejections ==
  [][posted' # posted =>
       IF viewReqs' # viewReqs
       THEN \A r \in BagToSet(viewReqs') :
              /\ ~MissingFields(r.body)
              /\ r.body.type \in {"legacy", "embed"}
              /\ RecordExists(r.body)
       ELSE LET body == response'.request
                invalid == MissingFields(body) \/ body.type \notin {"legacy", "embed"}
            IN /\ response'.endpoint = "view"
               /\ response'.code = 400 <=> invalid
               /\ response'.code = 404 <=> (~invalid /\ ~RecordExists(body))
               /\ response'.code \in {400, 404} =>
                    (videos' = videos /\ embedVideos' = embedVideos)
    ]_vars

\* a view of the embed document was counted, then a request for a document
\* that does not exist was answered 404 and the count stayed
C15_Witness ==
  /\ response.endpoint = "view" /\ response.code = 404
  /\ Get(response.request, "permlink") = "nope"
  /\ Views(embedVideos) = 1 /\ Views(videos) = 0
  /\ viewReqs = EmptyBag

\* what the endpoint answers for the request v on the store as it is
AnswerNow(endpoint, v) ==
  IF endpoint = "watch" THEN watchExchange(v) ELSE embedExchange(v)

\* C16: resolution is pure: a GET /api/watch or GET /api/embed step changes
\* no document and no setting, and its answer is a function of the request,
\* the store and the settings alone, so the same request made again on the
\* store the step leaves behind gets the same answer.
C16_ResolutionIsPure ==
  [][response'.endpoint \in {"watch", "embed"} =>
       /\ videos' = videos /\ embedVideos' = embedVideos /\ env' = env
       /\ response' = AnswerNow(response'.endpoint, response'.request)
    ]_vars

\* a legacy document stored without a views field was served with views 0
\* and still has no views field
C16_Witness ==
  /\ response.endpoint = "watch" /\ response.code = 200
  /\ response.body.views = 0
  /\ "views" \notin DOMAIN videos[TheKey]

\* C17: no view increment is lost under any interleaving of the requests in
\* flight: for each collection kind, the persisted views (0 when the field is
\* absent) plus the requests still suspended at db.js goes up by one when a
\* request is accepted and is kept by every step of incrementLegacyViews and
\* of the two updates of incrementEmbedViews, so that when k accepted
\* requests have all completed the views are the initial value plus k.
C17_NoLostUpdate ==
  [][\A type \in {"legacy", "embed"} :
       Views(Collection(type))' + Pending(type)' =
         Views(Collection(type)) + Pending(type)
           + (IF posted' # posted /\ Pending(type)' # Pending(type) THEN 1 ELSE 0)
    ]_vars

\* two requests found the embed document before it had a views field, both
\* completed, and the views are 2
C17_Witness ==
  /\ posted = 2 /\ viewReqs = EmptyBag
  /\ response.endpoint = "view"
  /\ Get(response.request, "type") = "embed"
  /\ "views" \notin DOMAIN response.video
  /\ Views(embedVideos) = 2

-----------------------------------------------------------------------------
(* Properties: stalls and the stall failover (SpecPlayer)                  *)

\* the URLs the server's answer names, in order: the sources of
\* loadVideoFromData and then the single fallback of the earlier answer
Chain ==
  IF currentVideoData = NoVideoData THEN <<>>
  ELSE Sources(currentVideoData)
         \o (IF Falsy(Get(currentVideoData, "videoUrlFallback")) THEN <<>>
             ELSE <<currentVideoData.videoUrlFallback>>)

\* the place of the active source in the chain
ChainPosition == CHOOSE i \in 1..Len(Chain) : Chain[i] = src[1]

\* the step runs the 'waiting' handler
StallStep == <<stallCount, lastStallTime>>' # <<stallCount, lastStallTime>>

\* the step is a stall failover
StallFailoverStep == StallStep /\ resumeHandlers' # resumeHandlers

\* C18: stall counting measures density: a 'waiting' event less than 10 s
\* after the previous stall adds one to stallCount and any other sets it to 1
\* (a failover then sets it to 0); and a session whose stalls are each 10 s or
\* more after the one before it never has stallCount above 1 and never makes
\* a stall failover.
C18_StallDensity ==
  /\ stallGaps = "sparse" => stallCount <= 1
  /\ stallGaps # "dense" => playerState # "Switched to backup gateway"

\* C19: whenever stallCount has reached 3 in the density window and the
\* chain has an entry after the active one, the controller has switched to
\* that entry and reset stallCount to 0: no state keeps a stallCount of 3 or
\* more while a next entry exists.
C19_FailoverPerThreeStalls ==
  (session > 0 /\ ChainPosition < Len(Chain)) => stallCount < 3

\* C20: a stall failover captures the position that was current immediately
\* before the source switch, and when the new source reports its metadata in
\* the same session playback is put at exactly that position, not at zero.
C20_ResumeAtCapturedPosition ==
  [][/\ StallFailoverStep =>
          /\ resumeHandlers' = Append(resumeHandlers,
                                      [session |-> session, time |-> currentTime])
          /\ src' = <<currentVideoData.videoUrlFallback>>
          /\ loading'
     /\ (/\ loading /\ ~loading'
         /\ resumeHandlers # <<>>
         /\ resumeHandlers[Len(resumeHandlers)].session = session) =>
          /\ currentTime' = resumeHandlers[Len(resumeHandlers)].time
          /\ src' = src
    ]_vars

\* after a stall failover the fallback source has reported its metadata and
\* playback is at position 30, where it was before the switch
C20_Witness ==
  /\ playerState = "Switched to backup gateway"
  /\ triedFallback /\ ~loading
  /\ src = <<OldServerVideoData.videoUrlFallback>>
  /\ resumeHandlers = <<>>
  /\ currentTime = 30

-----------------------------------------------------------------------------
(* Properties: sessions, errors and failover guards (SpecPlayer)           *)

\* the step runs the handler named
LoadStep == \E videoData \in VideoDatas : loadVideoFromData(videoData)
ErrorStep(code) == OnError(code)

\* the texts updatePlayerState shows for a fatal error
ErroredTexts == {"Error", "Decode Error - See Console"}

\* C21: decode-error recovery switches the source at most once per session;
\* a decode error after the fallback attempt shows the codec error and the
\* state Decode Error; and from then on, until the next loadVideoFromData, no
\* step switches the source or retries and no step leaves that state.
C21_DecodeErrorTerminal ==
  [][/\ (ErrorStep(3) /\ triedFallback) =>
          /\ codecErrorShown' /\ playerState' = "Decode Error - See Console"
          /\ src' = src /\ loading' = loading
     /\ (playerState = "Decode Error - See Console" /\ triedFallback /\ ~LoadStep) =>
          /\ playerState' \in ErroredTexts
          /\ src' = src
          /\ codecErrorShown'
    ]_vars

\* C22: loadVideoFromData resets every per-session guard: after it
\* triedFallback and hasIncrementedView are false and the stall counters
\* stallCount and lastStallTime are back at 0.
C22_LoadResetsGuards ==
  [][LoadStep =>
       /\ triedFallback' = FALSE /\ hasIncrementedView' = FALSE
       /\ stallCount' = 0 /\ lastStallTime' = 0
    ]_vars

\* C28: the stall failover never wraps and never moves backwards: within a
\* session the place of the active source in the chain never decreases and
\* never passes the last entry, and a 'waiting' event that brings stallCount
\* to the threshold while the active source is the last entry makes no
\* switch: the source stays and nothing is reloaded.
C28_FailoverNeverWraps ==
  [][/\ (session > 0 /\ ~LoadStep) =>
          /\ ChainPosition' >= ChainPosition
          /\ ChainPosition' <= Len(Chain)
     /\ (OnWaiting /\ StallCountAfter >= 3 /\ ChainPosition = Len(Chain)) =>
          /\ src' = src /\ loading' = loading
          /\ resumeHandlers' = resumeHandlers
    ]_vars

\* after the stall failover to the last entry three dense stalls were counted
\* again and the source stayed
C28_Witness ==
  /\ playerState = "Switched to backup gateway"
  /\ triedFallback /\ stallCount = 3
  /\ src = <<OldServerVideoData.videoUrlFallback>>
  /\ Len(Chain) = 2 /\ ChainPosition = 2

\* C29: decode-error recovery does not depend on the stall mechanism: the
\* first decode error after a stall failover of the session is recovered by a
\* switch of the source; it does not go straight to the codec error.
C29_DecodeRecoveryAfterStallFailover ==
  [][(ErrorStep(3) /\ playerState = "Switched to backup gateway") =>
       /\ playerState' = "Retrying with different gateway..."
       /\ ~codecErrorShown'
    ]_vars

\* C30: within a session the error handler makes at most one failover: once
\* triedFallback is set, an error of any code leaves the source as it is,
\* reloads nothing and ends in an error state.
C30_OneErrorFailover ==
  [][\A code \in ErrorCodes :
       (ErrorStep(code) /\ triedFallback) =>
         /\ src' = src /\ loading' = loading /\ currentTime' = currentTime
         /\ triedFallback'
         /\ playerState' \in ErroredTexts
    ]_vars

\* without VHS, so that only the error handler can have switched: the
\* fallback was tried and a later network error ended in the state Error
C30_Witness ==
  /\ ~hasVhs /\ triedFallback
  /\ src = <<OldServerVideoData.videoUrlFallback>>
  /\ playerState = "Error"
  /\ ~codecErrorShown

-----------------------------------------------------------------------------
(* Properties: the embedding interface (SpecNotify, SpecThrottle, SpecHost) *)

\* the entries of a log of postMessage calls whose message has the type given
PostsOfType(log, type) == SelectSeq(log, LAMBDA e : e.message.type = type)

\* the postMessage calls the step adds
NewPosts == SubSeq(posts', Len(posts) + 1, Len(posts'))

\* the 3speak-player-ready messages posted so far in the current session
Announced ==
  SelectSeq(PostsOfType(posts, "3speak-player-ready"), LAMBDA e : e.session = session)

\* C23: inside a frame 3speak-player-ready is posted once per change of the
\* video dimensions: no step posts it twice, and no step of a session posts it
\* with the width and height of the announcement before it in that session
\* (as 'loadedmetadata' after a failover would).
C23_ReadyOncePerDimensions ==
  [][LET ready == PostsOfType(NewPosts, "3speak-player-ready")
     IN /\ Len(ready) <= 1
        /\ (Len(ready) = 1 /\ session' = session /\ Announced # <<>>) =>
             LET last == Announced[Len(Announced)].message
             IN <<ready[1].message.width, ready[1].message.height>>
                  # <<last.width, last.height>>
    ]_vars

\* the origins the embedding site sends from
TrustedOrigins == {"https://3speak.tv"}

\* C24: host commands are validated by origin: a message event from an origin
\* that is not trusted changes nothing of the player and is not answered.
C24_UntrustedOriginIgnored ==
  [][\A origin \in Origins \ TrustedOrigins, data \in MessageDatas :
       Message(origin, data) =>
         UNCHANGED <<paused, muted, volume, currentTime, fullscreen, posts>>
    ]_vars

\* the command a message names: the first of its fields type, action and
\* command that is set, undefined when none is
NamedCommand(data) ==
  LET named == SelectSeq(<<"type", "action", "command">>,
                         LAMBDA f : f \in DOMAIN data /\ data[f] # "")
  IN IF named = <<>> THEN UNDEFINED ELSE data[named[1]]

\* C25: a message whose command is not one of the recognised commands is
\* ignored: the listener changes nothing of the player or the page and posts
\* no message.
C25_UnknownCommandIgnored ==
  [][\A origin \in Origins, data \in MessageDatas :
       (Message(origin, data) /\ NamedCommand(data) \notin Commands) =>
         /\ UNCHANGED <<serverVars, playerVars, qualityVars>>
         /\ UNCHANGED <<embedded, muted, volume, fullscreen, videoSize,
                        aspectRetries, lastTimeUpdate, posts>>
    ]_vars

\* a message that names a recognised command in a field read after an unknown
\* one was the last event, on a player that earlier commands have changed
C25_Witness ==
  /\ logged = [type |-> "reload", action |-> "play"]
  /\ paused /\ muted /\ volume = 3 /\ fullscreen /\ currentTime = MediaDuration

TimeUpdates == PostsOfType(posts, "3speak-timeupdate")

\* C27: any two 3speak-timeupdate messages are posted at least 250 ms apart,
\* and a page that is not inside a frame posts none.
C27_TimeUpdateThrottle ==
  /\ \A i, j \in 1..Len(TimeUpdates) :
       i < j => TimeUpdates[j].at - TimeUpdates[i].at >= 250
  /\ ~embedded => TimeUpdates = <<>>

\* three messages were posted, the second exactly 250 ms after the first, at
\* a time that is later than that of the third
C27_Witness ==
  /\ embedded /\ Len(TimeUpdates) = 3
  /\ TimeUpdates[2].at - TimeUpdates[1].at = 250
  /\ now > TimeUpdates[3].at

-----------------------------------------------------------------------------
(* Properties: error classes, stale handlers, stall bound (SpecPlayer)     *)

C32_StaleResumeIgnored ==
  [][OnLoadedMetadata =>
       \/ currentTime' = currentTime
       \/ \E i \in 1..Len(resumeHandlers) :
            /\ resumeHandlers[i].session = session
            /\ currentTime' = resumeHandlers[i].time
    ]_vars

\* C38: stallCount stays between 0 and 3: a 'waiting' event that brings the
\* count to the threshold of 3 resets it to 0, whether or not a fallback is
\* left.
C38_StallCountBounded ==
  [][OnWaiting =>
       /\ stallCount' \in 0..3
       /\ StallCountAfter >= 3 => stallCount' = 0
    ]_vars

-----------------------------------------------------------------------------
(* Properties: the view gate against the resolver (Spec)                   *)

\* the endpoint that resolves the documents of a collection kind
EndpointOf(type) == IF type = "legacy" THEN "watch" ELSE "embed"

\* C36: the view gate and the resolver agree on readiness: when POST
\* /api/view answers counted: true for a document, resolving that document
\* through the endpoint of its kind gives 200 with a real chain
\* (isPlaceholder false), not an error and not a placeholder.
C36_CountedImpliesResolvable ==
  (/\ response.endpoint = "view"
   /\ "counted" \in DOMAIN response.body
   /\ response.body.counted) =>
    LET resolved == ResolveDoc(EndpointOf(response.request.type), response.video)
    IN /\ resolved.code = 200
       /\ HasChain(resolved.body)
       /\ ~resolved.body.isPlaceholder

\* C37: the views counter of a document is never incremented while the
\* status of the document is not a ready one, also when the encoding pipeline
\* writes the status between the status test and the increment of a request.
C37_NoCountWhileNotReady ==
  [][\A type \in {"legacy", "embed"} :
       Views(Collection(type))' > Views(Collection(type)) =>
         CountableStatus(Collection(type)[TheKey])
    ]_vars

-----------------------------------------------------------------------------
(* Properties: the response against the failover of the client (SpecResolve) *)

\* the URL the failovers of the client switch to, read from the response
ClientFallback(body) == Get(body, "videoUrlFallback")

\* the URLs of the chain a response carries
ChainUrls(body) == {body[f] : f \in ChainFields}

\* C35: for every 200 response of /api/watch or /api/embed whose chain has
\* more than one URL, the failover of the client has a fallback: the field
\* it reads is set and is an entry of the chain other than the primary one.
C35_ClientFallbackInChain ==
  (/\ response.endpoint \in {"watch", "embed"}
   /\ response.code = 200
   /\ HasChain(response.body)
   /\ Cardinality(ChainUrls(response.body)) > 1) =>
    /\ ~Falsy(ClientFallback(response.body))
    /\ ClientFallback(response.body) \in ChainUrls(response.body)
    /\ ClientFallback(response.body) # response.body.videoUrl

-----------------------------------------------------------------------------
(* Properties: the volume commands (SpecHost)                              *)

\* C39: whatever volume commands the host has sent, with any numeric volume
\* or step, negative and larger than 1 included, the volume a command passes
\* to player.volume() is within [0, 1].
C39_VolumeArgumentInRange ==
  [][\A origin \in Origins, data \in MessageDatas :
       Message(origin, data) =>
         LET command == NamedCommand(data)
             arg == Field(data, "volume")
         IN /\ (command \in {"setVolume", "set-volume"} /\ arg.t = "number") =>
                 SetVolumeArgument(arg.v) \in 0..FullVolume
            /\ command \in {"volumeUp", "volume-up"} =>
                 VolumeUpArgument(volume, StepOf(data)) \in 0..FullVolume
            /\ command \in {"volumeDown", "volume-down"} =>
                 VolumeDownArgument(volume, StepOf(data)) \in 0..FullVolume
    ]_vars

-----------------------------------------------------------------------------
(* Properties: quality tiers (SpecQuality)                                  *)

\* the tiers whose enabled flag is set
EnabledTiers(flags) == {i \in 1..Len(flags) : flags[i]}

\* C33: on loadedmetadata, if more than two quality tiers exist exactly one
\* tier is enabled afterwards, the middle one at index floor(n/2) counted from
\* 0; with two or fewer tiers the enabled flags of all tiers are as before.
C33_MiddleTierAtMetadata ==
  [][OnLoadedMetadata =>
       IF Len(levels) > 2
       THEN EnabledTiers(enabled') = {(Len(levels) \div 2) + 1}
       ELSE enabled' = enabled]_vars

\* four tiers after loadedmetadata: only the third, index 2 from 0, is enabled
C33_Witness ==
  /\ ~loading
  /\ session = 1
  /\ Len(levels) = 4
  /\ EnabledTiers(enabled) = {3}

\* the tiers of at most 1.5 times the throughput
WithinBuffer(throughput) ==
  {i \in 1..Len(levels) : 2 * levels[i] <= 3 * throughput}

\* C34: a selection made after the first play returns, when some tier has a
\* bitrate of at most 1.5 times the measured throughput, a tier of the highest
\* bitrate among those, and otherwise what the default selection gave; a
\* selection made before the first play returns what the default selection gave.
C34_PermissiveSelection ==
  [][\A systemBandwidth \in SystemBandwidths, bandwidth \in Bandwidths,
        playlist \in 0..Len(levels) :
       SelectPlaylist(systemBandwidth, bandwidth, playlist) =>
         LET throughput == IF systemBandwidth # 0 THEN systemBandwidth
                           ELSE IF bandwidth # 0 THEN bandwidth ELSE 2500000
             returned == selection'.returned
         IN IF firstPlayArmed
            THEN returned = playlist
            ELSE IF WithinBuffer(throughput) # {}
                 THEN /\ returned \in WithinBuffer(throughput)
                      /\ \A i \in WithinBuffer(throughput) :
                           levels[i] <= levels[returned]
                 ELSE returned = playlist]_vars

====
